---- MODULE Spec2Model ----
(***************************************************************************)
(* Graph analysis engine of graph-app: graph_analysis.analyze_graph (the   *)
(* minimal influence analyzer), the causal-paths, path-analysis,           *)
(* node-importance and node-centrality plugins, and the plugin loader.     *)
(*                                                                         *)
(* Python dicts are functions whose DOMAIN is the set of keys present, so  *)
(* d.get(k, default) is Get(d, k, default).  The analyzers are sequential: *)
(* pc is the position in the running call, G the networkx DiGraph built so *)
(* far, edge the loop variable of the edge loop.  The node list is fixed   *)
(* when the call starts; the edge records and the plugin parameters are    *)
(* read-only inputs and are drawn where the code first reads them.         *)
(***************************************************************************)
EXTENDS Integers, Sequences, FiniteSets, TLC

VARIABLES fn, nodes, G, edge, ei, pc, params, id_to_label, all_paths, result, allIn,
          clock, start_time, metadata, edges, first, failed,
          disk, loaded_plugins, plugin_errors, plugins, returned

\* The plugin loader's registry, the plugins directory it scans and what its
\* last calls returned.
loaderVars == <<disk, loaded_plugins, plugin_errors, plugins, returned>>

vars == <<fn, nodes, G, edge, ei, pc, params, id_to_label, all_paths, result, allIn,
          clock, start_time, metadata, edges, first, failed, loaderVars>>

----------------------------------------------------------------------------
(* Bounds and input domains *)

MaxNodes == 3
MaxEdges == 2
MaxPathEdges == 3
MaxChainEdges == 6
MaxRanked == 5
MaxClock == 2

None == "None"
NodeIds == {"A", "B", "C"}
Unknown == "Z"
EmptyDict == [k \in {} |-> 0]

Get(d, k, default) == IF k \in DOMAIN d THEN d[k] ELSE default

Range(s) == {s[i] : i \in 1..Len(s)}

Abs(x) == IF x < 0 THEN -x ELSE x

Max(S) == CHOOSE x \in S : \A y \in S : y <= x

RECURSIVE SumOver(_, _)
SumOver(S, f) ==
    IF S = {} THEN 0
    ELSE LET x == CHOOSE y \in S : TRUE IN f[x] + SumOver(S \ {x}, f)

\* A node record carries its id alone (the label defaults to the id), or is
\* node B labelled "A" (the label of another node), or lacks its id.
NodeRecords ==
    {[id |-> i] : i \in NodeIds}
    \cup {[id |-> "B", label |-> "A"]}
    \cup {EmptyDict}

IdsOf(ns) == [i \in 1..Len(ns) |-> Get(ns[i], "id", None)]

\* Node ids are interchangeable: only lists whose ids first occur in the
\* order A, B, C are enumerated.  An id occurs once, except that the last
\* record may repeat the id of the first.
Canonical(ns) ==
    /\ \A i \in 1..Len(ns) :
        LET before == {IdsOf(ns)[j] : j \in 1..(i-1)} \ {None} IN
        /\ IdsOf(ns)[i] = "B" => "A" \in before
        /\ IdsOf(ns)[i] = "C" => "B" \in before
    /\ \A i, j \in 1..Len(ns) :
        (i < j /\ IdsOf(ns)[i] = IdsOf(ns)[j] /\ IdsOf(ns)[i] # None) => (i = 1 /\ j = Len(ns))

NodeLists ==
    {ns \in UNION {[1..n -> NodeRecords] : n \in 0..MaxNodes} : Canonical(ns)}

\* The node lists whose records carry an id and no label.
PlainNodeLists == {ns \in NodeLists : \A i \in 1..Len(ns) : DOMAIN ns[i] = {"id"}}

\* type and weight of an edge record: both signs of type, an absent type,
\* an absent weight, and positive, zero and negative input weights.
EdgeAttrs ==
    {EmptyDict}
    \cup {[type |-> t, weight |-> w] : t \in {"+", "-"}, w \in {-1, 1}}
    \cup {[type |-> "+", weight |-> 0]}

WellFormedEdges ==
    {[source |-> s, target |-> t] @@ a : s \in NodeIds, t \in NodeIds, a \in EdgeAttrs}

\* An edge whose source or target is no node id, or is absent.
MalformedEdges ==
    {[source |-> Unknown, target |-> "A"], [source |-> "A", target |-> Unknown],
     [source |-> "A"], [target |-> "A"]}

EdgeRecords == WellFormedEdges \cup MalformedEdges

\* Well-formed edges of unit or zero weight, for the longer edge lists.
PlainEdges ==
    {[source |-> s, target |-> t] @@ a : s \in NodeIds, t \in NodeIds,
        a \in {[type |-> "+", weight |-> 1], [type |-> "-", weight |-> 1],
               [type |-> "+", weight |-> 0]}}

\* Unit edges for the graphs with cycles: every ordered pair, self-loops
\* included, as a "+" edge, and the forward pairs as a "-" edge too.
CycleEdges ==
    {[source |-> s, target |-> t, type |-> "+", weight |-> 1] : s \in NodeIds, t \in NodeIds}
    \cup {[source |-> pr[1], target |-> pr[2], type |-> "-", weight |-> 1] :
              pr \in {<<"A", "B">>, <<"B", "C">>, <<"A", "C">>}}

----------------------------------------------------------------------------
(* networkx.DiGraph: node order, successor order, edge attributes *)

EmptyGraph == [nodes |-> <<>>, succ |-> EmptyDict, attr |-> EmptyDict]

AddNode(g, n) ==
    IF n \in Range(g.nodes) THEN g
    ELSE [g EXCEPT !.nodes = Append(g.nodes, n), !.succ = (n :> <<>>) @@ g.succ]

\* A graph that keeps the first edge of an ordered pair.
AddEdgeKeepFirst(g, u, v, data) ==
    IF <<u, v>> \in DOMAIN g.attr
    THEN g
    ELSE [g EXCEPT !.succ = (u :> Append(g.succ[u], v)) @@ g.succ,
                   !.attr = (<<u, v>> :> data) @@ g.attr]

AddEdge(g, u, v, data) ==
    IF <<u, v>> \in DOMAIN g.attr
    THEN [g EXCEPT !.attr = (<<u, v>> :> (data @@ g.attr[<<u, v>>])) @@ g.attr]
    ELSE [g EXCEPT !.succ = (u :> Append(g.succ[u], v)) @@ g.succ,
                   !.attr = (<<u, v>> :> data) @@ g.attr]

\* The edges leaving n instead of those entering it.
OutEdges(g, n) == {p \in DOMAIN g.attr : p[1] = n}

InEdges(g, n) == {p \in DOMAIN g.attr : p[2] = n}

InWeightSum(g, n) == SumOver(InEdges(g, n), [p \in InEdges(g, n) |-> g.attr[p].weight])

RECURSIVE Reach(_, _)
Reach(g, S) ==
    LET T == S \cup {p[2] : p \in {q \in DOMAIN g.attr : q[1] \in S}} IN
    IF T = S THEN S ELSE Reach(g, T)

HasPath(g, s, t) == t \in Reach(g, {s})

\* Depth-first enumeration in successor order of the simple paths to t that
\* extend `visited` through `children`, with at most `cutoff` edges.
\* The enumeration without the test for nodes already on the path.
RECURSIVE ExtendRevisiting(_, _, _, _, _)
ExtendRevisiting(g, visited, children, t, cutoff) ==
    IF children = <<>> THEN <<>>
    ELSE LET c == Head(children)
             rest == ExtendRevisiting(g, visited, Tail(children), t, cutoff)
         IN IF c = t
            THEN IF Len(visited) <= cutoff THEN <<Append(visited, c)>> \o rest ELSE rest
            ELSE IF Len(visited) < cutoff
                 THEN ExtendRevisiting(g, Append(visited, c), g.succ[c], t, cutoff) \o rest
                 ELSE rest

RECURSIVE Extend(_, _, _, _, _)
Extend(g, visited, children, t, cutoff) ==
    IF children = <<>> THEN <<>>
    ELSE LET c == Head(children)
             rest == Extend(g, visited, Tail(children), t, cutoff)
         IN IF c \in Range(visited) THEN rest
            ELSE IF c = t
                 THEN IF Len(visited) <= cutoff THEN <<Append(visited, c)>> \o rest ELSE rest
                 ELSE IF Len(visited) < cutoff
                      THEN Extend(g, Append(visited, c), g.succ[c], t, cutoff) \o rest
                      ELSE rest

\* nx.all_simple_paths.  For source = target networkx up to 3.1 yields
\* nothing and networkx from 3.2 yields the one-node path: `singleton` is
\* which of the two the installed library does.
AllSimplePaths(g, s, t, cutoff, singleton) ==
    IF s = t THEN (IF singleton THEN << <<s>> >> ELSE <<>>)
    ELSE Extend(g, <<s>>, g.succ[s], t, cutoff)

PathEdges(path) == {<<path[i], path[i+1]>> : i \in 1..(Len(path) - 1)}

\* The paths of the list that are in keep, in the order of the list.
SelectPaths(paths, keep) ==
    LET F[i \in 0..Len(paths)] ==
            IF i = 0 THEN <<>>
            ELSE IF paths[i] \in keep THEN Append(F[i-1], paths[i]) ELSE F[i-1]
    IN F[Len(paths)]

----------------------------------------------------------------------------
(* graph_analysis.analyze_graph *)

\* str(e) of an exception raised without a message is the empty string.
CoreErrorNoMessage(msg) ==
    [influence_scores |-> EmptyDict, positive_paths |-> <<>>,
     negative_paths |-> <<>>, error |-> ""]

CoreError(msg) ==
    [influence_scores |-> EmptyDict, positive_paths |-> <<>>,
     negative_paths |-> <<>>, error |-> msg]

CoreStoredWeight(e) ==
    LET weight == Get(e, "weight", 1) IN
    IF Get(e, "type", None) = "-" THEN -weight ELSE weight

CoreIdToLabel(ns) ==
    LET withId == {i \in 1..Len(ns) : Get(ns[i], "id", None) # None}
        last(n) == Max({i \in withId : ns[i].id = n})
    IN [n \in {ns[i].id : i \in withId} |-> Get(ns[last(n)], "label", n)]

\* A dict comprehension over g.nodes keyed by label: a later node with the
\* same label replaces the entry of an earlier one.
CoreInfluenceScores(g, idToLabel) ==
    LET lab(n) == Get(idToLabel, n, n)
        last(l)    == Max({i \in 1..Len(g.nodes) : lab(g.nodes[i]) = l})
    IN [l \in {lab(n) : n \in Range(g.nodes)} |-> InWeightSum(g, g.nodes[last(l)])]

CoreLabelPath(idToLabel, path) == [i \in 1..Len(path) |-> Get(idToLabel, path[i], path[i])]

\* A cutoff of one edge instead of the node count.
CorePathsCutoffOne(g, ns, singleton) ==
    LET source == Get(ns[1], "id", None)
        target == Get(ns[Len(ns)], "id", None)
        all_weights == {g.attr[p].weight : p \in DOMAIN g.attr}
    IN IF /\ Len(ns) >= 2
          /\ source # None /\ target # None
          /\ HasPath(g, source, target)
          /\ all_weights # {} /\ Max(all_weights) > 0
       THEN AllSimplePaths(g, source, target, 1, singleton)
       ELSE <<>>

\* The enumeration without the test for a positive weight in the graph.
CorePathsAnyWeights(g, ns, singleton) ==
    LET source == Get(ns[1], "id", None)
        target == Get(ns[Len(ns)], "id", None)
    IN IF /\ Len(ns) >= 2
          /\ source # None /\ target # None
          /\ HasPath(g, source, target)
       THEN AllSimplePaths(g, source, target, Len(g.nodes), singleton)
       ELSE <<>>

CorePaths(g, ns, singleton) ==
    LET source == Get(ns[1], "id", None)
        target == Get(ns[Len(ns)], "id", None)
        all_weights == {g.attr[p].weight : p \in DOMAIN g.attr}
    IN IF /\ Len(ns) >= 2
          /\ source # None /\ target # None
          /\ HasPath(g, source, target)
          /\ all_weights # {} /\ Max(all_weights) > 0
       THEN AllSimplePaths(g, source, target, Len(g.nodes), singleton)
       ELSE <<>>

\* A missing path reported as an error.
CoreResultNoPathError(g, idToLabel, paths) ==
    LET pos(path) == \A p \in PathEdges(path) : g.attr[p].weight > 0
        neg(path) == \A p \in PathEdges(path) : g.attr[p].weight < 0
        lab(ps) == [i \in 1..Len(ps) |-> CoreLabelPath(idToLabel, ps[i])]
    IN [influence_scores |-> CoreInfluenceScores(g, idToLabel),
        positive_paths |-> lab(SelectPaths(paths, {q \in Range(paths) : pos(q)})),
        negative_paths |-> lab(SelectPaths(paths, {q \in Range(paths) : neg(q)})),
        error |-> IF paths = <<>> THEN "No path between source and target" ELSE ""]

\* Zero-weight edges counted as negative.
CoreResultZeroNegative(g, idToLabel, paths) ==
    LET pos(path) == \A p \in PathEdges(path) : g.attr[p].weight > 0
        neg(path) == \A p \in PathEdges(path) : g.attr[p].weight <= 0
        lab(ps) == [i \in 1..Len(ps) |-> CoreLabelPath(idToLabel, ps[i])]
    IN [influence_scores |-> CoreInfluenceScores(g, idToLabel),
        positive_paths |-> lab(SelectPaths(paths, {q \in Range(paths) : pos(q)})),
        negative_paths |-> lab(SelectPaths(paths, {q \in Range(paths) : neg(q)})),
        error |-> ""]

CoreResult(g, idToLabel, paths) ==
    LET pos(path) == \A p \in PathEdges(path) : g.attr[p].weight > 0
        neg(path) == \A p \in PathEdges(path) : g.attr[p].weight < 0
        lab(ps) == [i \in 1..Len(ps) |-> CoreLabelPath(idToLabel, ps[i])]
    IN [influence_scores |-> CoreInfluenceScores(g, idToLabel),
        positive_paths |-> lab(SelectPaths(paths, {q \in Range(paths) : pos(q)})),
        negative_paths |-> lab(SelectPaths(paths, {q \in Range(paths) : neg(q)})),
        error |-> ""]

\* Lines 20-30: the node loop.
CoreAddNodes ==
    /\ fn = "core" /\ pc = "start"
    /\ LET F[i \in 0..Len(nodes)] ==
               IF i = 0 THEN EmptyGraph ELSE AddNode(F[i-1], Get(nodes[i], "id", None))
       IN IF \E i \in 1..Len(nodes) : Get(nodes[i], "id", None) = None
          THEN /\ pc' = "done"
               /\ result' = CoreError("Node missing 'id'")
               /\ G' = G
          ELSE /\ pc' = "edges"
               /\ G' = F[Len(nodes)]
               /\ result' = result
    /\ UNCHANGED <<fn, nodes, edge, ei, params, id_to_label, all_paths, allIn,
                   clock, start_time, metadata, edges, first, failed, loaderVars>>

\* Lines 33-43: one iteration of the edge loop on the next edge record.
CoreProcessEdge(records, bound) ==
    /\ fn = "core" /\ pc = "edges" /\ ei < bound
    /\ \E e \in records :
        LET src == Get(e, "source", None)
            tgt == Get(e, "target", None)
        IN /\ edge' = e
           /\ ei' = ei + 1
           /\ IF src = None \/ tgt = None
              THEN /\ pc' = "done"
                   /\ result' = CoreError("Edge missing 'source' or 'target'")
                   /\ UNCHANGED <<G, allIn>>
              ELSE IF src \notin Range(G.nodes) \/ tgt \notin Range(G.nodes)
              THEN /\ pc' = "done"
                   /\ result' = CoreError("Edge references missing node")
                   /\ UNCHANGED <<G, allIn>>
              ELSE /\ G' = AddEdge(G, src, tgt, [weight |-> CoreStoredWeight(e)])
                   /\ allIn' = [allIn EXCEPT ![tgt] = @ + CoreStoredWeight(e)]
                   /\ UNCHANGED <<pc, result>>
    /\ UNCHANGED <<fn, nodes, params, id_to_label, all_paths,
                   clock, start_time, metadata, edges, first, failed, loaderVars>>

\* Lines 45-78: the edge list is exhausted; scores, paths and the return.
CoreFinish ==
    /\ fn = "core" /\ pc = "edges"
    /\ id_to_label' = CoreIdToLabel(nodes)
    /\ \E singleton \in BOOLEAN :
        /\ all_paths' = CorePaths(G, nodes, singleton)
        /\ result' = CoreResult(G, id_to_label', all_paths')
    /\ pc' = "done"
    /\ UNCHANGED <<fn, nodes, G, edge, ei, params, allIn,
                   clock, start_time, metadata, edges, first, failed, loaderVars>>

----------------------------------------------------------------------------
(* plugins/causal-paths/analysis.py: analyze_graph *)

\* parameters: each key may be absent; "B" is a node id of the larger lists.
ParamSets ==
    {c @@ a @@ b :
        c \in {EmptyDict, [max_path_length |-> 1]},
        a \in {EmptyDict, [source_node |-> "B"]},
        b \in {EmptyDict, [target_node |-> "B"]}}

\* The parameter sets that leave source and target to the node list.
CutoffParamSets == {p \in ParamSets : DOMAIN p \subseteq {"max_path_length"}}

Truthy(x) == x # None /\ x # ""

\* Lines 166-184: the "metadata" of a returned result (the same in the three
\* plugins); datetime.now() is the clock, read at entry and before the return.
\* is_connected, a property of G, is left out.
Metadata(analysis_id, start, end, p, n_nodes, n_edges) ==
    [analysis_id |-> analysis_id,
     timestamp |-> start,
     execution_time_ms |-> end - start,
     parameters_used |-> p,
     graph_stats |-> [nodes |-> n_nodes, edges |-> n_edges]]

CausalRaise(exception, msg) == [raised |-> exception, message |-> msg]

CausalStoredWeight(e) ==
    LET weight == Get(e, "weight", 1) IN
    IF Get(e, "type", "+") = "-" THEN -Abs(weight) ELSE Abs(weight)

CausalEdgeData(e) == [weight |-> CausalStoredWeight(e), type |-> Get(e, "type", "+")]

CausalIdToLabel(ns) ==
    LET last(n) == Max({i \in 1..Len(ns) : ns[i].id = n})
    IN [n \in {ns[i].id : i \in 1..Len(ns)} |-> Get(ns[last(n)], "label", n)]

CausalInfluenceScores(g, idToLabel) ==
    LET last(l) == Max({i \in 1..Len(g.nodes) : idToLabel[g.nodes[i]] = l})
    IN [l \in {idToLabel[n] : n \in Range(g.nodes)} |-> InWeightSum(g, g.nodes[last(l)])]

CausalSource(ns, p) ==
    LET node_ids == [i \in 1..Len(ns) |-> ns[i].id]
        param == Get(p, "source_node", "auto")
    IN IF param = "auto" THEN node_ids[1]
       ELSE IF param \in Range(node_ids) THEN param ELSE node_ids[1]

CausalTarget(ns, p) ==
    LET node_ids == [i \in 1..Len(ns) |-> ns[i].id]
        param == Get(p, "target_node", "auto")
    IN IF param = "auto"
       THEN (IF Len(node_ids) > 1 THEN node_ids[Len(node_ids)] ELSE node_ids[1])
       ELSE IF param \in Range(node_ids) THEN param ELSE node_ids[Len(node_ids)]

CausalPaths(g, ns, p) ==
    LET source_node == CausalSource(ns, p)
        target_node == CausalTarget(ns, p)
    IN IF Truthy(source_node) /\ Truthy(target_node) /\ source_node # target_node
       THEN AllSimplePaths(g, source_node, target_node, Get(p, "max_path_length", 5), FALSE)
       ELSE <<>>

RECURSIVE PathWeight(_, _, _)
PathWeight(g, path, i) ==
    IF i >= Len(path) THEN 1
    ELSE g.attr[<<path[i], path[i+1]>>].weight * PathWeight(g, path, i + 1)

\* The weight of a path as the sum of its edge weights.
CausalPathInfoSum(g, idToLabel, path) ==
    [path |-> [i \in 1..Len(path) |-> idToLabel[path[i]]],
     weight |-> SumOver(1..(Len(path) - 1),
                    [i \in 1..(Len(path) - 1) |-> g.attr[<<path[i], path[i+1]>>].weight]),
     length |-> Len(path) - 1]

CausalPathInfo(g, idToLabel, path) ==
    [path |-> [i \in 1..Len(path) |-> idToLabel[path[i]]],
     weight |-> PathWeight(g, path, 1),
     length |-> Len(path) - 1]

\* list.sort(key=lambda x: abs(x['weight']), reverse=True): stable.
RECURSIVE SortByAbsWeight(_)
SortByAbsWeight(infos) ==
    IF infos = <<>> THEN <<>>
    ELSE LET sorted == SortByAbsWeight(SubSeq(infos, 1, Len(infos) - 1))
             x == infos[Len(infos)]
             k == Cardinality({i \in 1..Len(sorted) : Abs(sorted[i].weight) >= Abs(x.weight)})
         IN SubSeq(sorted, 1, k) \o <<x>> \o SubSeq(sorted, k + 1, Len(sorted))

CausalResult(g, ns, p, idToLabel, paths) ==
    LET types(path) == {g.attr[e].type : e \in PathEdges(path)}
        pos(path) == \A t \in types(path) : t = "+"
        neg(path) == ~pos(path) /\ \A t \in types(path) : t = "-"
        mix(path) == ~pos(path) /\ ~neg(path)
        info(ps) == [i \in 1..Len(ps) |-> CausalPathInfo(g, idToLabel, ps[i])]
        positive_paths == SortByAbsWeight(info(SelectPaths(paths, {q \in Range(paths) : pos(q)})))
        negative_paths == SortByAbsWeight(info(SelectPaths(paths, {q \in Range(paths) : neg(q)})))
        mixed_paths == SortByAbsWeight(info(SelectPaths(paths, {q \in Range(paths) : mix(q)})))
        only(infos) == [i \in 1..Len(infos) |-> infos[i].path]
    IN [raised |-> None,
        influence_scores |-> CausalInfluenceScores(g, idToLabel),
        positive_paths |-> only(positive_paths),
        negative_paths |-> only(negative_paths),
        detailed_positive_paths |-> positive_paths,
        detailed_negative_paths |-> negative_paths,
        mixed_paths |-> mixed_paths,
        path_analysis_source |-> Get(idToLabel, CausalSource(ns, p), CausalSource(ns, p)),
        path_analysis_target |-> Get(idToLabel, CausalTarget(ns, p), CausalTarget(ns, p))]

\* Lines 49-66: the check for an empty node list, outside the try block, and
\* the node loop inside it; line 226 turns every exception raised inside the
\* try block into an AnalysisError.
CausalAddNodes ==
    /\ fn = "causal" /\ pc = "start"
    /\ LET F[i \in 0..Len(nodes)] ==
               IF i = 0 THEN EmptyGraph ELSE AddNode(F[i-1], Get(nodes[i], "id", None))
       IN IF nodes = <<>>
          THEN /\ pc' = "done"
               /\ result' = CausalRaise("GraphValidationError", "Analysis requires at least 1 node")
               /\ G' = G
          ELSE IF \E i \in 1..Len(nodes) : "id" \notin DOMAIN nodes[i]
          THEN /\ pc' = "done"
               /\ result' = CausalRaise("AnalysisError",
                     "Causal path analysis failed: All nodes must have an 'id' field")
               /\ G' = G
          ELSE /\ pc' = "edges"
               /\ G' = F[Len(nodes)]
               /\ result' = result
    /\ start_time' = clock
    /\ UNCHANGED <<fn, nodes, edge, ei, params, id_to_label, all_paths, allIn,
                   clock, metadata, edges, first, failed, loaderVars>>

\* Lines 69-88: one iteration of the edge loop on the next edge record.
CausalProcessEdge(records, bound) ==
    /\ fn = "causal" /\ pc = "edges" /\ ei < bound
    /\ \E e \in records :
        /\ edge' = e
        /\ ei' = ei + 1
        /\ IF "source" \notin DOMAIN e \/ "target" \notin DOMAIN e
           THEN /\ pc' = "done"
                /\ result' = CausalRaise("AnalysisError",
                      "Causal path analysis failed: All edges must have 'source' and 'target' fields")
                /\ G' = G
           ELSE IF e.source \notin Range(G.nodes)
           THEN /\ pc' = "done"
                /\ result' = CausalRaise("AnalysisError",
                      "Causal path analysis failed: Edge source not found in nodes")
                /\ G' = G
           ELSE IF e.target \notin Range(G.nodes)
           THEN /\ pc' = "done"
                /\ result' = CausalRaise("AnalysisError",
                      "Causal path analysis failed: Edge target not found in nodes")
                /\ G' = G
           ELSE /\ G' = AddEdge(G, e.source, e.target, CausalEdgeData(e))
                /\ UNCHANGED <<pc, result>>
    /\ UNCHANGED <<fn, nodes, params, id_to_label, all_paths, allIn,
                   clock, start_time, metadata, edges, first, failed, loaderVars>>

\* Lines 90-224: the edge list is exhausted; scores, source and target, path
\* enumeration and classification, the sorts and the return.
CausalFinish(paramSets) ==
    /\ fn = "causal" /\ pc = "edges"
    /\ id_to_label' = CausalIdToLabel(nodes)
    /\ \E p \in paramSets :
        /\ params' = p
        /\ all_paths' = CausalPaths(G, nodes, p)
        /\ result' = CausalResult(G, nodes, p, id_to_label', all_paths')
        /\ metadata' = Metadata("causal-paths", start_time, clock, p, Len(nodes), ei)
    /\ pc' = "done"
    /\ UNCHANGED <<fn, nodes, G, edge, ei, allIn,
                   clock, start_time, edges, first, failed, loaderVars>>

----------------------------------------------------------------------------
(* plugins/path-analysis/analysis.py *)

\* Python None and a present value, for fields that may be null.
Null == <<>>
Some(x) == <<x>>

\* The numbers of this plugin are counted in thousandths, so that the
\* rounding of the reported distances has something to round: PathOne is
\* the number 1.
PathOne == 1000

\* round(x, 2) for x >= 0: the nearest hundredth, a tie going to the even one.
Round2(x) ==
    LET q == x \div 10
        r == x % 10
    IN IF r < 5 THEN 10 * q
       ELSE IF r > 5 THEN 10 * (q + 1)
       ELSE IF q % 2 = 0 THEN 10 * q ELSE 10 * (q + 1)

\* Edges of the path-analysis runs: forward and backward pairs with weights
\* 1 and -2, a weight of 0.004, a zero weight, an absent weight; two
\* malformed records.
PathEdgeRecords ==
    {[source |-> pr[1], target |-> pr[2], weight |-> w] :
        pr \in {<<"A", "B">>, <<"B", "C">>, <<"A", "C">>, <<"B", "A">>},
        w \in {PathOne, -2 * PathOne}}
    \cup {[source |-> "A", target |-> "B", weight |-> 4]}
    \cup {[source |-> "A", target |-> "B", weight |-> 0], [source |-> "C", target |-> "B"]}
    \cup {[source |-> "A", target |-> Unknown], [target |-> "A"]}

\* parameters: analysis_type, max_path_length and path_limit may be absent;
\* one set names source and target.
PathParamSets ==
    {a @@ m @@ l :
        a \in {EmptyDict, [analysis_type |-> "shortest_only"], [analysis_type |-> "all_paths"]},
        m \in {EmptyDict, [max_path_length |-> 1]},
        l \in {EmptyDict, [path_limit |-> 1]}}
    \cup {[source_node |-> "B", target_node |-> "B"]}

PathRaise(exception, msg) == [raised |-> exception, message |-> msg]

\* Line 89: the distance of an edge.
PathDistance(e) ==
    LET weight == Get(e, "weight", PathOne) IN IF weight # 0 THEN Abs(weight) ELSE PathOne

PathEdgeData(e) ==
    [weight |-> PathDistance(e), type |-> Get(e, "type", "+"),
     original_weight |-> Get(e, "weight", PathOne)]

PathSource(ns, p) ==
    LET node_ids == [i \in 1..Len(ns) |-> ns[i].id]
        param == Get(p, "source_node", "auto")
    IN IF param = "auto" \/ param \notin Range(node_ids) THEN node_ids[1] ELSE param

\* Lines 103-113: the target, moved to the first other id when it is the source.
PathTarget(ns, p) ==
    LET node_ids == [i \in 1..Len(ns) |-> ns[i].id]
        param == Get(p, "target_node", "auto")
        source_node == PathSource(ns, p)
        target_node == IF param = "auto" \/ param \notin Range(node_ids)
                       THEN node_ids[Len(node_ids)] ELSE param
        others == {i \in 1..Len(node_ids) : node_ids[i] # source_node}
    IN IF source_node = target_node /\ others # {}
       THEN node_ids[CHOOSE i \in others : \A j \in others : i <= j]
       ELSE target_node

RECURSIVE PathDistanceSum(_, _, _)
PathDistanceSum(g, path, i) ==
    IF i >= Len(path) THEN 0
    ELSE g.attr[<<path[i], path[i+1]>>].weight + PathDistanceSum(g, path, i + 1)

\* nx.shortest_path with weight='weight': the paths of least total weight
\* (the library picks one of them); none when target is unreachable.
ShortestPaths(g, s, t) ==
    IF s = t THEN {<<s>>}
    ELSE LET simple == Range(Extend(g, <<s>>, g.succ[s], t, Len(g.nodes)))
         IN {q \in simple : \A r \in simple :
                PathDistanceSum(g, q, 1) <= PathDistanceSum(g, r, 1)}

\* An unreachable target reported with distance 0 instead of null.
AnalyzeShortestPathsZeroDistance(g, s, t, idToLabel) ==
    IF ShortestPaths(g, s, t) = {}
    THEN {[shortest_path |-> Null, shortest_distance |-> Some(0), shortest_path_length |-> 0]}
    ELSE {[shortest_path |-> Some([i \in 1..Len(q) |-> idToLabel[q[i]]]),
           shortest_path_ids |-> q,
           shortest_distance |-> Some(Round2(PathDistanceSum(g, q, 1))),
           shortest_path_length |-> Len(q) - 1] : q \in ShortestPaths(g, s, t)}

\* analyze_shortest_paths: the results it may return.
AnalyzeShortestPaths(g, s, t, idToLabel) ==
    IF ShortestPaths(g, s, t) = {}
    THEN {[shortest_path |-> Null, shortest_distance |-> Null, shortest_path_length |-> 0]}
    ELSE {[shortest_path |-> Some([i \in 1..Len(q) |-> idToLabel[q[i]]]),
           shortest_path_ids |-> q,
           shortest_distance |-> Some(Round2(PathDistanceSum(g, q, 1))),
           shortest_path_length |-> Len(q) - 1] : q \in ShortestPaths(g, s, t)}

\* list.sort(key=lambda x: x['weight']): stable, ascending.
RECURSIVE SortByWeight(_)
SortByWeight(details) ==
    IF details = <<>> THEN <<>>
    ELSE LET sorted == SortByWeight(SubSeq(details, 1, Len(details) - 1))
             x == details[Len(details)]
             k == Cardinality({i \in 1..Len(sorted) : sorted[i].weight <= x.weight})
         IN SubSeq(sorted, 1, k) \o <<x>> \o SubSeq(sorted, k + 1, Len(sorted))

\* The sort of line 297 left out.
AnalyzeAllPathsUnsorted(g, s, t, max_length, limit, idToLabel, singleton) ==
    LET found == AllSimplePaths(g, s, t, max_length, singleton)
        kept == IF Len(found) > limit
                THEN SubSeq(found, 1, IF limit >= 0 THEN limit ELSE Len(found) + limit)
                ELSE found
        path_details == [i \in 1..Len(kept) |->
            [path |-> [j \in 1..Len(kept[i]) |-> idToLabel[kept[i][j]]],
             path_ids |-> kept[i],
             weight |-> Round2(PathDistanceSum(g, kept[i], 1)),
             length |-> Len(kept[i]) - 1]]
    IN [all_paths |-> path_details, total_paths |-> Len(path_details)]

\* analyze_all_paths: enumeration, truncation to limit, details, sort.
AnalyzeAllPaths(g, s, t, max_length, limit, idToLabel, singleton) ==
    LET found == AllSimplePaths(g, s, t, max_length, singleton)
        kept == IF Len(found) > limit
                THEN SubSeq(found, 1, IF limit >= 0 THEN limit ELSE Len(found) + limit)
                ELSE found
        path_details == [i \in 1..Len(kept) |->
            [path |-> [j \in 1..Len(kept[i]) |-> idToLabel[kept[i][j]]],
             path_ids |-> kept[i],
             weight |-> Round2(PathDistanceSum(g, kept[i], 1)),
             length |-> Len(kept[i]) - 1]]
    IN [all_paths |-> SortByWeight(path_details), total_paths |-> Len(path_details)]

RECURSIVE ProductOver(_, _)
ProductOver(S, f) ==
    IF S = {} THEN 1
    ELSE LET x == CHOOSE y \in S : TRUE IN f[x] * ProductOver(S \ {x}, f)

\* a / b for a >= 0 < b, to the nearest integer, a tie going to the even one.
RoundDiv(a, b) ==
    LET q == a \div b
        r == a % b
    IN IF 2 * r < b THEN q
       ELSE IF 2 * r > b THEN q + 1
       ELSE IF q % 2 = 0 THEN q ELSE q + 1

\* nx.betweenness_centrality(G, weight='weight') after round(score, 4), in
\* ten-thousandths: for node v the sum, over the ordered pairs (s, t) of
\* other nodes with t reachable from s, of the share of the least-weight
\* paths from s to t that pass through v, divided by (n-1)(n-2) when n > 2.
NodeBetweenness(g) ==
    LET ns == Range(g.nodes)
        pairs == {pr \in ns \X ns : pr[1] # pr[2] /\ ShortestPaths(g, pr[1], pr[2]) # {}}
        sigma == [pr \in pairs |-> Cardinality(ShortestPaths(g, pr[1], pr[2]))]
        through(pr, v) ==
            Cardinality({q \in ShortestPaths(g, pr[1], pr[2]) :
                            \E i \in 2..(Len(q) - 1) : q[i] = v})
        common == ProductOver(pairs, sigma)
        n == Len(g.nodes)
        scale == IF n > 2 THEN (n - 1) * (n - 2) ELSE 1
        share(v) == SumOver({pr \in pairs : pr[1] # v /\ pr[2] # v},
                            [pr \in pairs |-> through(pr, v) * (common \div sigma[pr])])
    IN [v \in ns |-> RoundDiv(10000 * share(v), common * scale)]

\* Lines 356-358: the scores keyed by label, in the order of the nodes; a
\* later node with the same label replaces the score.
BetweennessLabeled(g, idToLabel, scores) ==
    LET isFirst(i) == \A j \in 1..(i-1) : idToLabel[g.nodes[j]] # idToLabel[g.nodes[i]]
        last(l)    == Max({i \in 1..Len(g.nodes) : idToLabel[g.nodes[i]] = l})
        keys == SelectSeq([i \in 1..Len(g.nodes) |-> i], isFirst)
    IN [k \in 1..Len(keys) |->
           <<idToLabel[g.nodes[keys[k]]], scores[g.nodes[last(idToLabel[g.nodes[keys[k]]])]]>>]

\* sorted(items, key=lambda x: x[1], reverse=True): stable, descending.
RECURSIVE SortByBetweenness(_)
SortByBetweenness(items) ==
    IF items = <<>> THEN <<>>
    ELSE LET sorted == SortByBetweenness(SubSeq(items, 1, Len(items) - 1))
             x == items[Len(items)]
             k == Cardinality({i \in 1..Len(sorted) : sorted[i][2] >= x[2]})
         IN SubSeq(sorted, 1, k) \o <<x>> \o SubSeq(sorted, k + 1, Len(sorted))

\* analyze_bottlenecks (edge_criticality is left out).
AnalyzeBottlenecks(g, idToLabel) ==
    LET items == BetweennessLabeled(g, idToLabel, NodeBetweenness(g))
        sorted_nodes == SortByBetweenness(items)
        critical_threshold == IF Len(sorted_nodes) >= 4 THEN Len(sorted_nodes) \div 4 ELSE 1
        top == SubSeq(sorted_nodes, 1,
                      IF critical_threshold < Len(sorted_nodes)
                      THEN critical_threshold ELSE Len(sorted_nodes))
        positive(i) == top[i][2] > 0
        critical == SelectSeq([i \in 1..Len(top) |-> i], positive)
    IN [node_betweenness |-> [l \in {items[k][1] : k \in 1..Len(items)} |->
                                 (CHOOSE it \in Range(items) : it[1] = l)[2]],
        critical_nodes |-> [k \in 1..Len(critical) |-> top[critical[k]][1]],
        bottleneck_count |-> Cardinality({k \in 1..Len(items) : items[k][2] > 1000})]

\* Lines 53-72: the two checks of the node list, outside the try block, and
\* the node loop inside it.
PathAddNodes ==
    /\ fn = "path" /\ pc = "start"
    /\ LET F[i \in 0..Len(nodes)] ==
               IF i = 0 THEN EmptyGraph ELSE AddNode(F[i-1], Get(nodes[i], "id", None))
       IN IF nodes = <<>>
          THEN /\ pc' = "done"
               /\ result' = PathRaise("GraphValidationError", "Analysis requires at least 1 node")
               /\ G' = G
          ELSE IF Len(nodes) < 2
          THEN /\ pc' = "done"
               /\ result' = PathRaise("GraphValidationError",
                     "Path analysis requires at least 2 nodes")
               /\ G' = G
          ELSE IF \E i \in 1..Len(nodes) : "id" \notin DOMAIN nodes[i]
          THEN /\ pc' = "done"
               /\ result' = PathRaise("AnalysisError",
                     "Path analysis failed: All nodes must have an 'id' field")
               /\ G' = G
          ELSE /\ pc' = "edges"
               /\ G' = F[Len(nodes)]
               /\ result' = result
    /\ start_time' = clock
    /\ UNCHANGED <<fn, nodes, edge, ei, params, id_to_label, all_paths, allIn,
                   clock, metadata, edges, first, failed, loaderVars>>

\* Lines 75-90: one iteration of the edge loop on the next edge record.
PathProcessEdge(records, bound) ==
    /\ fn = "path" /\ pc = "edges" /\ ei < bound
    /\ \E e \in records :
        /\ edge' = e
        /\ ei' = ei + 1
        /\ IF "source" \notin DOMAIN e \/ "target" \notin DOMAIN e
           THEN /\ pc' = "done"
                /\ result' = PathRaise("AnalysisError",
                      "Path analysis failed: All edges must have 'source' and 'target' fields")
                /\ G' = G
           ELSE IF e.source \notin Range(G.nodes)
           THEN /\ pc' = "done"
                /\ result' = PathRaise("AnalysisError",
                      "Path analysis failed: Edge source not found in nodes")
                /\ G' = G
           ELSE IF e.target \notin Range(G.nodes)
           THEN /\ pc' = "done"
                /\ result' = PathRaise("AnalysisError",
                      "Path analysis failed: Edge target not found in nodes")
                /\ G' = G
           ELSE /\ G' = AddEdge(G, e.source, e.target, PathEdgeData(e))
                /\ UNCHANGED <<pc, result>>
    /\ UNCHANGED <<fn, nodes, params, id_to_label, all_paths, allIn,
                   clock, start_time, metadata, edges, first, failed, loaderVars>>

\* Lines 92-231: the edge list is exhausted; source and target, the analyses
\* the analysis_type selects, the return.  analyze_path_efficiency and
\* analyze_bottlenecks catch every exception themselves.
PathFinish(paramSets) ==
    /\ fn = "path" /\ pc = "edges"
    /\ id_to_label' = CausalIdToLabel(nodes)
    /\ \E p \in paramSets, singleton \in BOOLEAN :
        LET source_node == PathSource(nodes, p)
            target_node == PathTarget(nodes, p)
            analysis_type == Get(p, "analysis_type", "comprehensive")
            all_paths_data ==
                IF analysis_type \in {"comprehensive", "all_paths"}
                THEN AnalyzeAllPaths(G, source_node, target_node,
                         Get(p, "max_path_length", 6), Get(p, "path_limit", 20),
                         id_to_label', singleton)
                ELSE EmptyDict
            bottleneck_data ==
                IF analysis_type \in {"comprehensive", "bottlenecks"}
                THEN AnalyzeBottlenecks(G, id_to_label')
                ELSE EmptyDict
        IN /\ params' = p
           /\ metadata' = Metadata("path-analysis", start_time, clock, p, Len(nodes), ei)
           /\ all_paths' = IF analysis_type \in {"comprehensive", "all_paths"}
                           THEN AllSimplePaths(G, source_node, target_node,
                                    Get(p, "max_path_length", 6), singleton)
                           ELSE <<>>
           /\ \E shortest_paths_data \in
                  (IF analysis_type \in {"comprehensive", "shortest_only"}
                   THEN AnalyzeShortestPaths(G, source_node, target_node, id_to_label')
                   ELSE {EmptyDict}) :
                result' = bottleneck_data @@ all_paths_data @@ shortest_paths_data @@
                          [raised |-> None,
                           source_node |-> Get(id_to_label', source_node, source_node),
                           target_node |-> Get(id_to_label', target_node, target_node),
                           source_id |-> source_node,
                           target_id |-> target_node]
    /\ pc' = "done"
    /\ UNCHANGED <<fn, nodes, G, edge, ei, allIn,
                   clock, start_time, edges, first, failed, loaderVars>>

----------------------------------------------------------------------------

\* A graph with more nodes than the plugin's default max_path_length has
\* hops: seven nodes, the edges of the chain A -> ... -> G and a shortcut.
ChainNodes ==
    <<[id |-> "A"], [id |-> "B"], [id |-> "C"], [id |-> "D"],
      [id |-> "E"], [id |-> "F"], [id |-> "G"]>>

ChainEdges ==
    {[source |-> pr[1], target |-> pr[2]] :
        pr \in {<<"A", "B">>, <<"B", "C">>, <<"C", "D">>, <<"D", "E">>,
                 <<"E", "F">>, <<"F", "G">>, <<"A", "G">>}}

----------------------------------------------------------------------------
(* plugins/node-importance/analysis.py *)

\* Node lists of the ranking runs: up to MaxRanked nodes with ids of their
\* own, a list with two nodes of one label, a list with a node without id.
ImportanceNodeLists ==
    {SubSeq(ChainNodes, 1, n) : n \in 0..MaxRanked}
    \cup {<<[id |-> "A"], [id |-> "B", label |-> "A"]>>, <<[id |-> "A"], EmptyDict>>,
          <<[id |-> "A"], [id |-> "B"], [id |-> "C"], [id |-> "D", label |-> "A"]>>}

ImportanceEdgeRecords ==
    {[source |-> "A", target |-> "A", weight |-> -1],
     [source |-> "A", target |-> Unknown], [source |-> "A"]}

\* parameters: highlight_tiers and top_percent may be absent.
ImportanceParamSets ==
    {h @@ t : h \in {EmptyDict} \cup {[highlight_tiers |-> k] : k \in 1..3},
              t \in {EmptyDict, [top_percent |-> 100], [top_percent |-> 10]}}

\* calculate_importance_scores returns what networkx computes for each node
\* of G: any assignment of these values.
ScoreValues == {0, 1, 2}

ImportanceRaise(exception, msg) == [raised |-> exception, message |-> msg]

\* Lines 92-94: a dict keyed by label, in the order the labels first occur;
\* a later node with the same label replaces the score.
ImportanceLabeled(g, idToLabel, scores) ==
    LET isFirst(i) == \A j \in 1..(i-1) : idToLabel[g.nodes[j]] # idToLabel[g.nodes[i]]
        last(l) == Max({i \in 1..Len(g.nodes) : idToLabel[g.nodes[i]] = l})
        keys == SelectSeq([i \in 1..Len(g.nodes) |-> i], isFirst)
    IN [k \in 1..Len(keys) |->
           <<idToLabel[g.nodes[keys[k]]], scores[g.nodes[last(idToLabel[g.nodes[keys[k]]])]]>>]

\* sorted(items, key=lambda x: x[1], reverse=True): stable, descending.
RECURSIVE SortByScore(_)
SortByScore(items) ==
    IF items = <<>> THEN <<>>
    ELSE LET sorted == SortByScore(SubSeq(items, 1, Len(items) - 1))
             x == items[Len(items)]
             k == Cardinality({i \in 1..Len(sorted) : sorted[i][2] >= x[2]})
         IN SubSeq(sorted, 1, k) \o <<x>> \o SubSeq(sorted, k + 1, Len(sorted))

\* Line 101: max(1, int(total_nodes * top_percent / 100)), top_percent >= 0.
NodesToHighlight(total_nodes, top_percent) == Max({1, (total_nodes * top_percent) \div 100})

\* seq[start:end] for 0 <= start, 0 <= end.
Slice(seq, start, end) ==
    LET stop == IF end < Len(seq) THEN end ELSE Len(seq)
    IN IF start < stop THEN SubSeq(seq, start + 1, stop) ELSE <<>>

\* Every tier, the last included, cut at its own size.
CreateImportanceTiersNoRemainder(ranked_nodes, num_tiers) ==
    IF ranked_nodes = <<>> \/ num_tiers <= 0 THEN <<>>
    ELSE LET tier_size == Max({1, Len(ranked_nodes) \div num_tiers})
             tier_nodes(i) == Slice(ranked_nodes, i * tier_size, (i + 1) * tier_size)
             F[n \in 0..num_tiers] ==
                 IF n = 0 THEN <<>>
                 ELSE IF tier_nodes(n - 1) # <<>>
                      THEN Append(F[n-1],
                              [tier |-> n, nodes |-> tier_nodes(n - 1),
                               count |-> Len(tier_nodes(n - 1)),
                               min_score |-> CHOOSE m \in {tier_nodes(n - 1)[k][2] : k \in 1..Len(tier_nodes(n - 1))} :
                                               \A k \in 1..Len(tier_nodes(n - 1)) : m <= tier_nodes(n - 1)[k][2],
                               max_score |-> Max({tier_nodes(n - 1)[k][2] : k \in 1..Len(tier_nodes(n - 1))})])
                      ELSE F[n-1]
         IN F[num_tiers]

\* create_importance_tiers (avg_score, a rounded quotient, is left out).
CreateImportanceTiers(ranked_nodes, num_tiers) ==
    IF ranked_nodes = <<>> \/ num_tiers <= 0 THEN <<>>
    ELSE LET tier_size == Max({1, Len(ranked_nodes) \div num_tiers})
             tier_nodes(i) ==
                 Slice(ranked_nodes, i * tier_size,
                       IF i < num_tiers - 1 THEN (i + 1) * tier_size ELSE Len(ranked_nodes))
             F[n \in 0..num_tiers] ==
                 IF n = 0 THEN <<>>
                 ELSE IF tier_nodes(n - 1) # <<>>
                      THEN Append(F[n-1],
                              [tier |-> n, nodes |-> tier_nodes(n - 1),
                               count |-> Len(tier_nodes(n - 1)),
                               min_score |-> CHOOSE m \in {tier_nodes(n - 1)[k][2] : k \in 1..Len(tier_nodes(n - 1))} :
                                               \A k \in 1..Len(tier_nodes(n - 1)) : m <= tier_nodes(n - 1)[k][2],
                               max_score |-> Max({tier_nodes(n - 1)[k][2] : k \in 1..Len(tier_nodes(n - 1))})])
                      ELSE F[n-1]
         IN F[num_tiers]

\* generate_color_scheme for the 'heat' scheme.
HeatColors ==
    <<"#d73027", "#f46d43", "#fdae61", "#fee08b", "#e6f598", "#abdda4", "#66c2a5", "#3288bd">>

GenerateColorScheme(num_colors) ==
    [i \in 1..(IF num_colors > 0 THEN num_colors ELSE 0) |->
        HeatColors[((i - 1) % Len(HeatColors)) + 1]]

\* The index of the tier written as its number.
TierStylesFromZero(tier_data, tier_colors) ==
    LET names(i) == {tier_data[i].nodes[k][1] : k \in 1..Len(tier_data[i].nodes)}
        tierOf(name) == Max({i \in 1..Len(tier_data) : name \in names(i)})
    IN [name \in UNION {names(i) : i \in 1..Len(tier_data)} |->
           [tier |-> tierOf(name) - 1,
            color |-> tier_colors[tierOf(name)],
            size |-> Max({30 - (tierOf(name) - 1) * 4, 10})]]

\* Lines 116-123: the tier (index + 1), colour and size of each node of a tier.
TierStyles(tier_data, tier_colors) ==
    LET names(i) == {tier_data[i].nodes[k][1] : k \in 1..Len(tier_data[i].nodes)}
        tierOf(name) == Max({i \in 1..Len(tier_data) : name \in names(i)})
    IN [name \in UNION {names(i) : i \in 1..Len(tier_data)} |->
           [tier |-> tierOf(name),
            color |-> tier_colors[tierOf(name)],
            size |-> Max({30 - (tierOf(name) - 1) * 4, 10})]]

\* The nodes past the selected ones given the tier of the last selected one.
NodeStylesNoTierZero(ranked_nodes, nodes_to_highlight, tier_data, tier_colors) ==
    LET styled == TierStyles(tier_data, tier_colors)
        rest == Slice(ranked_nodes, nodes_to_highlight, Len(ranked_nodes))
        others == {rest[k][1] : k \in 1..Len(rest)} \ DOMAIN styled
    IN styled @@ [name \in others |-> [tier |-> Len(tier_data), color |-> "#cccccc", size |-> 12]]

\* Lines 110-136: tier, colour and size of the selected nodes, then of the
\* remaining nodes that have none yet.
NodeStyles(ranked_nodes, nodes_to_highlight, tier_data, tier_colors) ==
    LET styled == TierStyles(tier_data, tier_colors)
        rest == Slice(ranked_nodes, nodes_to_highlight, Len(ranked_nodes))
        others == {rest[k][1] : k \in 1..Len(rest)} \ DOMAIN styled
    IN styled @@ [name \in others |-> [tier |-> 0, color |-> "#cccccc", size |-> 12]]

ImportanceResult(g, p, idToLabel, scores) ==
    LET highlight_tiers == Get(p, "highlight_tiers", 4)
        top_percent == Get(p, "top_percent", 50)
        importance_labeled == ImportanceLabeled(g, idToLabel, scores)
        ranked_nodes == SortByScore(importance_labeled)
        nodes_to_highlight == NodesToHighlight(Len(ranked_nodes), top_percent)
        top_nodes == Slice(ranked_nodes, 0, nodes_to_highlight)
        tier_data == CreateImportanceTiers(top_nodes, highlight_tiers)
        styles == NodeStyles(ranked_nodes, nodes_to_highlight, tier_data,
                             GenerateColorScheme(highlight_tiers))
    IN [raised |-> None,
        full_ranking |-> ranked_nodes,
        nodes_highlighted |-> nodes_to_highlight,
        tier_data |-> tier_data,
        tier_assignments |-> [name \in DOMAIN styles |-> styles[name].tier],
        node_colors |-> [name \in DOMAIN styles |-> styles[name].color],
        node_sizes |-> [name \in DOMAIN styles |-> styles[name].size]]

\* Lines 53-69: the check for an empty node list, outside the try block, and
\* the node loop inside it.
ImportanceAddNodes ==
    /\ fn = "importance" /\ pc = "start"
    /\ LET F[i \in 0..Len(nodes)] ==
               IF i = 0 THEN EmptyGraph ELSE AddNode(F[i-1], Get(nodes[i], "id", None))
       IN IF nodes = <<>>
          THEN /\ pc' = "done"
               /\ result' = ImportanceRaise("GraphValidationError",
                     "Analysis requires at least 1 node")
               /\ G' = G
          ELSE IF \E i \in 1..Len(nodes) : "id" \notin DOMAIN nodes[i]
          THEN /\ pc' = "done"
               /\ result' = ImportanceRaise("AnalysisError",
                     "Node importance analysis failed: All nodes must have an 'id' field")
               /\ G' = G
          ELSE /\ pc' = "edges"
               /\ G' = F[Len(nodes)]
               /\ result' = result
    /\ start_time' = clock
    /\ UNCHANGED <<fn, nodes, edge, ei, params, id_to_label, all_paths, allIn,
                   clock, metadata, edges, first, failed, loaderVars>>

\* Lines 72-83: one iteration of the edge loop.  Whether G is a DiGraph or a
\* Graph (line 58) matters to the scores networkx computes only.
ImportanceProcessEdge(records, bound) ==
    /\ fn = "importance" /\ pc = "edges" /\ ei < bound
    /\ \E e \in records :
        /\ edge' = e
        /\ ei' = ei + 1
        /\ IF "source" \notin DOMAIN e \/ "target" \notin DOMAIN e
           THEN /\ pc' = "done"
                /\ result' = ImportanceRaise("AnalysisError",
                      "Node importance analysis failed: All edges must have 'source' and 'target' fields")
                /\ G' = G
           ELSE IF e.source \notin Range(G.nodes) \/ e.target \notin Range(G.nodes)
           THEN /\ pc' = "done"
                /\ result' = ImportanceRaise("AnalysisError",
                      "Node importance analysis failed: Edge source or target not found in nodes")
                /\ G' = G
           ELSE /\ G' = AddEdge(G, e.source, e.target, [weight |-> Abs(Get(e, "weight", 1))])
                /\ UNCHANGED <<pc, result>>
    /\ UNCHANGED <<fn, nodes, params, id_to_label, all_paths, allIn,
                   clock, start_time, metadata, edges, first, failed, loaderVars>>

\* Lines 85-230: the edge list is exhausted; scores, ranking, tiers, styles.
ImportanceFinish(paramSets) ==
    /\ fn = "importance" /\ pc = "edges"
    /\ id_to_label' = CausalIdToLabel(nodes)
    /\ \E p \in paramSets, importance_scores \in [Range(G.nodes) -> ScoreValues] :
        /\ params' = p
        /\ result' = ImportanceResult(G, p, id_to_label', importance_scores)
        /\ metadata' = Metadata("node-importance", start_time, clock, p, Len(nodes), ei)
    /\ pc' = "done"
    /\ UNCHANGED <<fn, nodes, G, edge, ei, all_paths, allIn,
                   clock, start_time, edges, first, failed, loaderVars>>

----------------------------------------------------------------------------
(* plugins/node-centrality/analysis.py *)

\* Node lists of the centrality runs: the plain ones, two nodes of one
\* label, a node without id.
CentralityNodeLists ==
    PlainNodeLists
    \cup {<<[id |-> "A"], [id |-> "B", label |-> "A"]>>, <<[id |-> "A"], EmptyDict>>}

\* Edge records with and without a type, a negative weight, a self-loop and
\* a record without target.
CentralityEdgeRecords ==
    {[source |-> "A", target |-> "B", type |-> "+"],
     [source |-> "A", target |-> "B"],
     [source |-> "B", target |-> "C", weight |-> -2],
     [source |-> "A", target |-> "A"],
     [source |-> "A"]}

\* parameters: centrality_types may be absent; the lists name the measures
\* in any order.
CentralityParamSets ==
    {EmptyDict}
    \cup {[centrality_types |-> ts] :
            ts \in {<<>>, <<"eigenvector">>, <<"eigenvector", "degree">>, <<"betweenness">>,
                    <<"pagerank", "closeness">>, <<"pagerank", "eigenvector">>}}

\* Line 44.
CentralityTypes(p) ==
    Range(Get(p, "centrality_types", <<"betweenness", "closeness", "degree", "eigenvector">>))

\* The calls of networkx that compute a measure, with weight='weight' or
\* without.  Whether a call raises depends on the graph and on the installed
\* libraries (pagerank needs scipy, eigenvector_centrality may not converge):
\* any of them may.
Attempts ==
    {"betweenness_centrality(weight)", "betweenness_centrality",
     "closeness_centrality(distance)", "closeness_centrality",
     "eigenvector_centrality(weight)", "eigenvector_centrality",
     "pagerank(weight)", "pagerank"}

CentralityRaise(exception, msg) == [raised |-> exception, message |-> msg]

\* Line 58: a DiGraph when some edge record has a truthy type.
CentralityDirected(es) == \E i \in 1..Len(es) : Truthy(Get(es[i], "type", None))

\* G.add_edge on a DiGraph, or on a Graph, whose adjacency is symmetric.
CentralityAddEdge(g, directed, u, v, data) ==
    IF directed THEN AddEdge(g, u, v, data)
    ELSE AddEdge(AddEdge(g, u, v, data), v, u, data)

\* G.degree(): in-degree plus out-degree in a DiGraph, the number of
\* neighbours in a Graph, a self-loop counting twice in both.
Degree(g, directed, n) ==
    IF directed THEN Cardinality(OutEdges(g, n)) + Cardinality(InEdges(g, n))
    ELSE Cardinality(OutEdges(g, n)) + (IF <<n, n>> \in DOMAIN g.attr THEN 1 ELSE 0)

\* nx.degree_centrality(G) after round(score, 4), in ten-thousandths: the
\* degree over n - 1, and 1 for every node of a graph of one node.
DegreeCentrality(g, directed) ==
    [n \in Range(g.nodes) |->
        [by |-> "degree_centrality",
         value |-> IF Len(g.nodes) <= 1 THEN 10000
                   ELSE RoundDiv(10000 * Degree(g, directed, n), Len(g.nodes) - 1)]]

\* What a call of networkx that does not raise returns for node n: the
\* score that call computes, not computed here.
LibraryScores(g, attempt) == [n \in Range(g.nodes) |-> [by |-> attempt, node |-> n]]

\* {id_to_label[node]: round(score, 4) for node, score in scores.items()}:
\* a later node with the same label replaces the score.
CentralityLabeled(g, idToLabel, scores) ==
    LET last(l) == Max({i \in 1..Len(g.nodes) : idToLabel[g.nodes[i]] = l})
    IN [l \in {idToLabel[n] : n \in Range(g.nodes)} |-> scores[g.nodes[last(l)]]]

\* try: the weighted call; except: the unweighted call, outside any try
\* (lines 96-108, 110-121, 141-151).  raising is the set of calls that would
\* raise; the outcome is the scores, or the call whose exception leaves the
\* block.
TwoAttempts(g, idToLabel, raising, weighted, unweighted) ==
    IF weighted \notin raising
    THEN [scores |-> Some(CentralityLabeled(g, idToLabel, LibraryScores(g, weighted))),
          raised |-> {}, escaped |-> Null]
    ELSE IF unweighted \notin raising
    THEN [scores |-> Some(CentralityLabeled(g, idToLabel, LibraryScores(g, unweighted))),
          raised |-> {weighted}, escaped |-> Null]
    ELSE [scores |-> Null, raised |-> {weighted, unweighted}, escaped |-> Some(unweighted)]

\* Lines 122-139: the weighted call, the unweighted call, and then what
\* centrality_results holds under 'degree', or an empty dict.
EigenvectorAttempts(g, directed, idToLabel, raising, centrality_results) ==
    IF "eigenvector_centrality(weight)" \notin raising
    THEN [scores |-> Some(CentralityLabeled(g, idToLabel,
                              LibraryScores(g, "eigenvector_centrality(weight)"))),
          raised |-> {}, escaped |-> Null]
    ELSE IF "eigenvector_centrality" \notin raising
    THEN [scores |-> Some(CentralityLabeled(g, idToLabel,
                              LibraryScores(g, "eigenvector_centrality"))),
          raised |-> {"eigenvector_centrality(weight)"}, escaped |-> Null]
    ELSE [scores |-> Some(Get(centrality_results, "degree", EmptyDict)),
          raised |-> {"eigenvector_centrality(weight)", "eigenvector_centrality"},
          escaped |-> Null]

\* One block of lines 90-151 after the blocks before it: nothing when the
\* measure is not requested or an exception has left an earlier block.
CentralityBlock(so_far, requested, measure, outcome) ==
    IF ~requested \/ so_far.escaped # Null THEN so_far
    ELSE [centrality_results |->
              IF outcome.scores = Null THEN so_far.centrality_results
              ELSE (measure :> outcome.scores[1]) @@ so_far.centrality_results,
          raised |-> so_far.raised \cup outcome.raised,
          escaped |-> outcome.escaped]

\* Lines 88-151: degree, betweenness, closeness, eigenvector, pagerank, in
\* this order whatever the order of centrality_types.
CentralityMeasures(g, directed, idToLabel, types, raising) ==
    LET none == [centrality_results |-> EmptyDict, raised |-> {}, escaped |-> Null]
        degree == CentralityBlock(none, "degree" \in types, "degree",
                      [scores |-> Some(CentralityLabeled(g, idToLabel,
                                           DegreeCentrality(g, directed))),
                       raised |-> {}, escaped |-> Null])
        betweenness == CentralityBlock(degree, "betweenness" \in types, "betweenness",
                      TwoAttempts(g, idToLabel, raising,
                          "betweenness_centrality(weight)", "betweenness_centrality"))
        closeness == CentralityBlock(betweenness, "closeness" \in types, "closeness",
                      TwoAttempts(g, idToLabel, raising,
                          "closeness_centrality(distance)", "closeness_centrality"))
        eigenvector == CentralityBlock(closeness, "eigenvector" \in types, "eigenvector",
                      EigenvectorAttempts(g, directed, idToLabel, raising,
                          closeness.centrality_results))
    IN CentralityBlock(eigenvector, "pagerank" \in types, "pagerank",
                      TwoAttempts(g, idToLabel, raising, "pagerank(weight)", "pagerank"))

\* Lines 199-235: the results (the composite scores, the top nodes and the
\* visualizations, which are computed from the scores, are left out), or
\* the AnalysisError of the outer except, whose message ends with the text
\* of the exception of networkx.
CentralityResult(measures) ==
    IF measures.escaped # Null
    THEN CentralityRaise("AnalysisError",
             "Node centrality analysis failed: " \o measures.escaped[1])
    ELSE [raised |-> None, secondary |-> measures.centrality_results]

\* Lines 49-69: the two checks of the node list, outside the try block, and
\* the node loop inside it.
CentralityAddNodes ==
    /\ fn = "centrality" /\ pc = "start"
    /\ LET F[i \in 0..Len(nodes)] ==
               IF i = 0 THEN EmptyGraph ELSE AddNode(F[i-1], Get(nodes[i], "id", None))
       IN IF nodes = <<>>
          THEN /\ pc' = "done"
               /\ result' = CentralityRaise("GraphValidationError",
                     "Analysis requires at least 1 node")
               /\ G' = G
          ELSE IF Len(nodes) < 2
          THEN /\ pc' = "done"
               /\ result' = CentralityRaise("GraphValidationError",
                     "Centrality analysis requires at least 2 nodes")
               /\ G' = G
          ELSE IF \E i \in 1..Len(nodes) : "id" \notin DOMAIN nodes[i]
          THEN /\ pc' = "done"
               /\ result' = CentralityRaise("AnalysisError",
                     "Node centrality analysis failed: All nodes must have an 'id' field")
               /\ G' = G
          ELSE /\ pc' = "edges"
               /\ G' = F[Len(nodes)]
               /\ result' = result
    /\ start_time' = clock
    /\ UNCHANGED <<fn, nodes, edge, ei, params, id_to_label, all_paths, allIn,
                   clock, metadata, edges, first, failed, loaderVars>>

\* Lines 72-83: one iteration of the edge loop.
CentralityProcessEdge ==
    /\ fn = "centrality" /\ pc = "edges" /\ ei < Len(edges)
    /\ LET e == edges[ei + 1] IN
        /\ edge' = e
        /\ ei' = ei + 1
        /\ IF "source" \notin DOMAIN e \/ "target" \notin DOMAIN e
           THEN /\ pc' = "done"
                /\ result' = CentralityRaise("AnalysisError",
                      "Node centrality analysis failed: All edges must have 'source' and 'target' fields")
                /\ G' = G
           ELSE IF e.source \notin Range(G.nodes)
           THEN /\ pc' = "done"
                /\ result' = CentralityRaise("AnalysisError",
                      "Node centrality analysis failed: Edge source '" \o e.source
                          \o "' not found in nodes")
                /\ G' = G
           ELSE IF e.target \notin Range(G.nodes)
           THEN /\ pc' = "done"
                /\ result' = CentralityRaise("AnalysisError",
                      "Node centrality analysis failed: Edge target '" \o e.target
                          \o "' not found in nodes")
                /\ G' = G
           ELSE /\ G' = CentralityAddEdge(G, CentralityDirected(edges), e.source, e.target,
                                          [weight |-> Abs(Get(e, "weight", 1))])
                /\ UNCHANGED <<pc, result>>
    /\ UNCHANGED <<fn, nodes, params, id_to_label, all_paths, allIn,
                   clock, start_time, metadata, edges, first, failed, loaderVars>>

\* Lines 85-232: the edge list is exhausted; the measures and the results.
\* failed is the set of calls of networkx that raised during the call.
CentralityFinish ==
    /\ fn = "centrality" /\ pc = "edges" /\ ei = Len(edges)
    /\ id_to_label' = CausalIdToLabel(nodes)
    /\ \E p \in CentralityParamSets, raising \in SUBSET Attempts :
        /\ params' = p
        /\ failed' = CentralityMeasures(G, CentralityDirected(edges), id_to_label',
                                        CentralityTypes(p), raising).raised
        /\ result' = CentralityResult(CentralityMeasures(G, CentralityDirected(edges),
                                        id_to_label', CentralityTypes(p), raising))
        /\ metadata' = Metadata("node-centrality", start_time, clock, p, Len(nodes), ei)
    /\ pc' = "done"
    /\ UNCHANGED <<fn, nodes, G, edge, ei, all_paths, allIn,
                   clock, start_time, edges, first, loaderVars>>

----------------------------------------------------------------------------
(* plugin_loader.py *)

\* Line 21: the directory the loader scans.
PluginsDir == "py/plugins"

\* The names an entry of the plugins directory may have; one is hidden.
PluginItems == {"causal-paths", "node-centrality", ".cache"}

Hidden(item) == item = ".cache"

\* The ids a plugin's ANALYSIS_INFO may declare.
PluginIds == {"causal-paths", "node-centrality"}

\* What is on disk under a name: nothing, a plain file, or a directory
\* that lacks __init__.py, whose ANALYSIS_INFO lacks 'version', or a
\* complete plugin declaring an id.  causal-paths declares its own id,
\* node-centrality its own or that of causal-paths; the hidden directory
\* holds a complete plugin.
EntryKinds(item) ==
    IF Hidden(item)
    THEN {[kind |-> "absent", id |-> None], [kind |-> "plugin", id |-> "causal-paths"]}
    ELSE {[kind |-> k, id |-> None] : k \in {"absent", "file", "no_init", "no_version"}}
         \cup {[kind |-> "plugin", id |-> i] :
                  i \in IF item = "causal-paths" THEN {item} ELSE PluginIds}

\* No plugins directory.
NoPluginsDir ==
    [exists |-> FALSE, entries |-> [i \in PluginItems |-> [kind |-> "absent", id |-> None]]]

\* The plugins directory: whether it exists and what it holds.  A directory
\* that exists holds the hidden directory.
Disks ==
    {NoPluginsDir}
    \cup {[exists |-> TRUE, entries |-> es] :
            es \in {f \in [PluginItems -> UNION {EntryKinds(i) : i \in PluginItems}] :
                        /\ \A i \in PluginItems : f[i] \in EntryKinds(i)
                        /\ \A i \in PluginItems : Hidden(i) => f[i].kind = "plugin"}}

\* os.path.join(self.plugins_dir, item).
PluginPath(item) == PluginsDir \o "/" \o item

\* os.path.exists(os.path.join(plugin_dir, "analysis.py")).
HasAnalysisFile(d, plugin_dir) ==
    /\ d.exists
    /\ \E item \in PluginItems :
        /\ PluginPath(item) = plugin_dir
        /\ d.entries[item].kind \in {"no_init", "no_version", "plugin"}

\* Lines 60-109: the exception _load_plugin_info raises for the directory,
\* Null when it raises none.
LoadError(entry, plugin_name) ==
    IF entry.kind = "no_init"
    THEN Some("Plugin " \o plugin_name \o " missing __init__.py")
    ELSE IF entry.kind = "no_version"
    THEN Some("Plugin " \o plugin_name \o " missing required field: version")
    ELSE Null

\* Lines 96-98: the plugin info (name, description, version, category,
\* parameters and _module are left out).
PluginInfo(entry, plugin_dir) == [id |-> entry.id, _path |-> plugin_dir]

\* The state the loader carries through a scan.
Registry(loaded, errors, found) ==
    [loaded_plugins |-> loaded, plugin_errors |-> errors, plugins |-> found]

\* Lines 26-58 and 111: discover_plugins on the registry of the loader,
\* the items in the order os.listdir gives them.
DiscoverPlugins(d, loaded, errors, order) ==
    LET F[i \in 0..Len(order)] ==
            IF i = 0 THEN Registry(loaded, errors, <<>>)
            ELSE LET item == order[i]
                     entry == d.entries[item]
                     r == F[i-1]
                 IN IF entry.kind = "file" \/ Hidden(item) THEN r
                    ELSE IF LoadError(entry, item) # Null
                    THEN [r EXCEPT !.plugin_errors =
                              (item :> LoadError(entry, item)[1]) @@ r.plugin_errors]
                    ELSE [r EXCEPT
                              !.loaded_plugins =
                                  (entry.id :> PluginInfo(entry, PluginPath(item)))
                                      @@ r.loaded_plugins,
                              !.plugins = Append(r.plugins, PluginInfo(entry, PluginPath(item)))]
    IN IF ~d.exists THEN Registry(loaded, errors, <<>>) ELSE F[Len(order)]

\* os.listdir: the entries of the directory, in any order.
Listings(d) ==
    LET present == {item \in PluginItems : d.entries[item].kind # "absent"}
    IN {order \in [1..Cardinality(present) -> present] : Range(order) = present}

\* Lines 161-173: the ids of the plugins listed (the other fields and the
\* order of the list are left out).
GetPluginList(loaded) == {[id |-> loaded[i].id] : i \in DOMAIN loaded}

\* Lines 134-159: whether execute_plugin reaches the plugin's
\* analyze_graph.
CanExecute(d, loaded, plugin_id) ==
    /\ plugin_id \in DOMAIN loaded
    /\ HasAnalysisFile(d, loaded[plugin_id]._path)

\* The plugins directory changes between the calls: an entry is added,
\* removed or edited, or the directory itself is removed or put in place.
ChangeDisk ==
    /\ fn = "loader"
    /\ \E d \in Disks :
        /\ d # disk
        /\ (d.exists /\ disk.exists)
              => Cardinality({i \in PluginItems : d.entries[i] # disk.entries[i]}) = 1
        /\ disk' = d
    /\ UNCHANGED <<fn, nodes, G, edge, ei, pc, params, id_to_label, all_paths, result,
                   allIn, clock, start_time, metadata, edges, first, failed,
                   loaded_plugins, plugin_errors, plugins, returned>>

\* loader.discover_plugins().
Discover ==
    /\ fn = "loader"
    /\ \E order \in Listings(disk) :
        LET r == DiscoverPlugins(disk, loaded_plugins, plugin_errors, order) IN
        /\ loaded_plugins' = r.loaded_plugins
        /\ plugin_errors' = r.plugin_errors
        /\ plugins' = Some(r.plugins)
        /\ returned' = [call |-> "discover_plugins", value |-> r.plugins]
    /\ UNCHANGED <<fn, nodes, G, edge, ei, pc, params, id_to_label, all_paths, result,
                   allIn, clock, start_time, metadata, edges, first, failed, disk>>

\* Lines 188-203: discover_plugins_js.
DiscoverPluginsJs ==
    /\ fn = "loader"
    /\ \E order \in Listings(disk) :
        LET r == DiscoverPlugins(disk, loaded_plugins, plugin_errors, order) IN
        /\ loaded_plugins' = r.loaded_plugins
        /\ plugin_errors' = r.plugin_errors
        /\ plugins' = Some(r.plugins)
        /\ returned' = [call |-> "discover_plugins_js", success |-> TRUE,
                        plugins |-> GetPluginList(r.loaded_plugins),
                        errors |-> r.plugin_errors]
    /\ UNCHANGED <<fn, nodes, G, edge, ei, pc, params, id_to_label, all_paths, result,
                   allIn, clock, start_time, metadata, edges, first, failed, disk>>

\* loader.get_plugin_list().
PluginList ==
    /\ fn = "loader"
    /\ returned' = [call |-> "get_plugin_list", value |-> GetPluginList(loaded_plugins)]
    /\ UNCHANGED <<fn, nodes, G, edge, ei, pc, params, id_to_label, all_paths, result,
                   allIn, clock, start_time, metadata, edges, first, failed,
                   disk, loaded_plugins, plugin_errors, plugins>>

\* Lines 118-159: execute_plugin.  The plugin's analyze_graph returns or
\* raises; what it raises is wrapped.
ExecutePlugin ==
    /\ fn = "loader"
    /\ \E plugin_id \in PluginIds, analysis_raises \in BOOLEAN :
        returned' =
            IF plugin_id \notin DOMAIN loaded_plugins
            THEN [call |-> "execute_plugin", plugin_id |-> plugin_id, raised |-> "Exception",
                  message |-> "Plugin '" \o plugin_id \o "' not found"]
            ELSE IF ~CanExecute(disk, loaded_plugins, plugin_id) \/ analysis_raises
            THEN [call |-> "execute_plugin", plugin_id |-> plugin_id, raised |-> "Exception",
                  message |-> "Plugin execution failed: "]
            ELSE [call |-> "execute_plugin", plugin_id |-> plugin_id, raised |-> None,
                  message |-> ""]
    /\ UNCHANGED <<fn, nodes, G, edge, ei, pc, params, id_to_label, all_paths, result,
                   allIn, clock, start_time, metadata, edges, first, failed,
                   disk, loaded_plugins, plugin_errors, plugins>>

\* The loader's state after construction: an empty registry; no call has
\* returned.
InitLoader ==
    /\ loaded_plugins = EmptyDict
    /\ plugin_errors = EmptyDict
    /\ plugins = Null
    /\ returned = EmptyDict

----------------------------------------------------------------------------

\* The state at the entry of a call.  The clock is the wall clock; edges is
\* the edge list of a run that fixes it in advance, and <<>> in the runs that
\* draw each record where the edge loop reads it; first is the outcome of an
\* earlier call of the same run, Null when there is none.
InitWith(fns, nodeLists, edgeLists) ==
    /\ fn \in fns
    /\ nodes \in nodeLists
    /\ edges \in edgeLists
    /\ clock = 0
    /\ start_time = 0
    /\ metadata = EmptyDict
    /\ first = Null
    /\ failed = {}
    /\ G = EmptyGraph
    /\ edge = EmptyDict
    /\ ei = 0
    /\ pc = "start"
    /\ params = EmptyDict
    /\ id_to_label = EmptyDict
    /\ all_paths = <<>>
    /\ result = EmptyDict
    /\ allIn = [n \in NodeIds |-> 0]
    /\ disk = NoPluginsDir
    /\ InitLoader

InitFor(fns, nodeLists) == InitWith(fns, nodeLists, {<<>>})

Init(nodeLists) == InitFor({"core", "causal"}, nodeLists)

\* Every node list, edge lists of up to MaxEdges records of every kind.
Next ==
    \/ CoreAddNodes \/ CoreProcessEdge(EdgeRecords, MaxEdges) \/ CoreFinish
    \/ CausalAddNodes \/ CausalProcessEdge(EdgeRecords, MaxEdges)
    \/ CausalFinish(ParamSets)

Spec == Init(NodeLists) /\ [][Next]_vars

\* Plain node lists, edge lists of up to MaxPathEdges plain records.
NextPaths ==
    \/ CoreAddNodes \/ CoreProcessEdge(PlainEdges, MaxPathEdges) \/ CoreFinish
    \/ CausalAddNodes \/ CausalProcessEdge(PlainEdges, MaxPathEdges)
    \/ CausalFinish(CutoffParamSets)

SpecPaths == Init(PlainNodeLists) /\ [][NextPaths]_vars

\* Plain node lists, edge lists of up to MaxPathEdges cycle edges. A call runs
\* to its return: the analyzers are sequential code, hence the fairness.
NextCycles ==
    \/ CoreAddNodes \/ CoreProcessEdge(CycleEdges, MaxPathEdges) \/ CoreFinish
    \/ CausalAddNodes \/ CausalProcessEdge(CycleEdges, MaxPathEdges)
    \/ CausalFinish(CutoffParamSets)

SpecCycles == Init(PlainNodeLists) /\ [][NextCycles]_vars /\ WF_vars(NextCycles)

\* The path-analysis plugin on plain node lists.
NextPathAnalysis ==
    \/ PathAddNodes \/ PathProcessEdge(PathEdgeRecords, MaxPathEdges)
    \/ PathFinish(PathParamSets)

SpecPathAnalysis == InitFor({"path"}, PlainNodeLists) /\ [][NextPathAnalysis]_vars

\* The causal-paths plugin on the chain, no parameter supplied.
NextLongChain ==
    \/ CausalAddNodes \/ CausalProcessEdge(ChainEdges, MaxChainEdges)
    \/ CausalFinish({EmptyDict})

SpecLongChain == InitFor({"causal"}, {ChainNodes}) /\ [][NextLongChain]_vars

\* The node-importance plugin.
NextImportance ==
    \/ ImportanceAddNodes \/ ImportanceProcessEdge(ImportanceEdgeRecords, MaxEdges)
    \/ ImportanceFinish(ImportanceParamSets)

SpecImportance == InitFor({"importance"}, ImportanceNodeLists) /\ [][NextImportance]_vars

----------------------------------------------------------------------------
(* Two calls of one analyzer on the same arguments *)

\* Node lists whose first and last ids differ (what all_simple_paths yields
\* for source = target depends on the installed networkx, which is the same
\* in both calls).
TwiceNodeLists ==
    {ns \in PlainNodeLists : Len(ns) >= 2 /\ ns[1].id # ns[Len(ns)].id}

TwiceEdgeRecords ==
    {[source |-> "A", target |-> "B", type |-> "+", weight |-> 1],
     [source |-> "A", target |-> "B", type |-> "-", weight |-> 1],
     [source |-> "B", target |-> "C", type |-> "+", weight |-> 1],
     [source |-> "B", target |-> "A"],
     [source |-> "A"]}

RECURSIVE EdgeLists(_, _)
EdgeLists(records, n) ==
    IF n = 0 THEN {<<>>}
    ELSE LET shorter == EdgeLists(records, n - 1)
         IN shorter \cup {Append(es, e) : es \in shorter, e \in records}

\* Time passes.
Tick ==
    /\ clock < MaxClock
    /\ clock' = clock + 1
    /\ UNCHANGED <<fn, nodes, G, edge, ei, pc, params, id_to_label, all_paths, result,
                   allIn, start_time, metadata, edges, first, failed, loaderVars>>

\* The record the edge loop reads next.
NextEdge == IF ei < Len(edges) THEN {edges[ei + 1]} ELSE {}

\* The parameters of the call: any of the sets in the first call, the same
\* ones in the second.
TwiceParamSets == IF first = Null THEN CutoffParamSets ELSE {params}

\* The edge loop has read the whole list.
CoreReturn == ei = Len(edges) /\ CoreFinish

CausalReturn == ei = Len(edges) /\ CausalFinish(TwiceParamSets)

\* A second call that goes on reading the edge list where the first stopped.
RerunKeepIndex ==
    /\ pc = "done" /\ first = Null
    /\ first' = Some([result |-> result, metadata |-> metadata])
    /\ pc' = "start"
    /\ G' = EmptyGraph
    /\ edge' = EmptyDict
    /\ id_to_label' = EmptyDict
    /\ all_paths' = <<>>
    /\ result' = EmptyDict
    /\ metadata' = EmptyDict
    /\ allIn' = [n \in NodeIds |-> 0]
    /\ UNCHANGED <<fn, nodes, ei, params, edges, clock, start_time, failed, loaderVars>>

\* The first call has returned or raised; the analyzer is called again with
\* the same nodes, edges and parameters.  Every local of the first call is
\* gone; what is kept is its outcome, for the comparison.
Rerun ==
    /\ pc = "done" /\ first = Null
    /\ first' = Some([result |-> result, metadata |-> metadata])
    /\ pc' = "start"
    /\ G' = EmptyGraph
    /\ edge' = EmptyDict
    /\ ei' = 0
    /\ id_to_label' = EmptyDict
    /\ all_paths' = <<>>
    /\ result' = EmptyDict
    /\ metadata' = EmptyDict
    /\ allIn' = [n \in NodeIds |-> 0]
    /\ UNCHANGED <<fn, nodes, params, edges, clock, start_time, failed, loaderVars>>

NextTwice ==
    \/ Tick
    \/ CoreAddNodes \/ CoreProcessEdge(NextEdge, Len(edges)) \/ CoreReturn
    \/ CausalAddNodes \/ CausalProcessEdge(NextEdge, Len(edges)) \/ CausalReturn
    \/ Rerun

SpecTwice ==
    /\ InitWith({"core", "causal"}, TwiceNodeLists, EdgeLists(TwiceEdgeRecords, MaxEdges))
    /\ [][NextTwice]_vars

----------------------------------------------------------------------------
(* causal-paths: the choice of source and target *)

\* Plain node lists, and two lists with a node whose id is the empty string.
EndsNodeLists ==
    {ns \in PlainNodeLists : Len(ns) >= 1}
    \cup {<<[id |-> ""], [id |-> "B"]>>, <<[id |-> "A"], [id |-> ""], [id |-> "B"]>>}

EndsEdgeRecords ==
    {[source |-> pr[1], target |-> pr[2], type |-> "+", weight |-> 1] :
        pr \in {<<"A", "B">>, <<"B", "C">>, <<"B", "A">>, <<"", "B">>, <<"A", "">>}}
    \cup {[source |-> "A", target |-> "C", type |-> "-", weight |-> 1]}

\* source_node and target_node: absent, 'auto', a node id, no node id.
EndsParamSets ==
    {a @@ b :
        a \in {EmptyDict} \cup {[source_node |-> v] : v \in {"auto", "B", Unknown}},
        b \in {EmptyDict} \cup {[target_node |-> v] : v \in {"auto", "A", Unknown}}}

NextEnds ==
    \/ CausalAddNodes \/ CausalProcessEdge(EndsEdgeRecords, MaxEdges)
    \/ CausalFinish(EndsParamSets)

SpecEnds == InitFor({"causal"}, EndsNodeLists) /\ [][NextEnds]_vars

----------------------------------------------------------------------------
(* causal-paths: path weights *)

\* Forward edges with weights of several sizes and both signs.
WeightedEdges ==
    {[source |-> pr[1], target |-> pr[2]] @@ a :
        pr \in {<<"A", "B">>, <<"B", "C">>, <<"A", "C">>},
        a \in {[type |-> "+", weight |-> 1], [type |-> "+", weight |-> 2],
               [type |-> "-", weight |-> 3], [type |-> "+", weight |-> 0]}}

NextWeights ==
    \/ CausalAddNodes \/ CausalProcessEdge(WeightedEdges, MaxPathEdges)
    \/ CausalFinish(CutoffParamSets)

SpecWeights == InitFor({"causal"}, PlainNodeLists) /\ [][NextWeights]_vars

\* The node-centrality plugin on edge lists of up to MaxEdges records.
NextCentrality == CentralityAddNodes \/ CentralityProcessEdge \/ CentralityFinish

SpecCentrality ==
    /\ InitWith({"centrality"}, CentralityNodeLists, EdgeLists(CentralityEdgeRecords, MaxEdges))
    /\ [][NextCentrality]_vars

\* One PluginLoader, constructed once, and a plugins directory that changes
\* between its calls.
NextLoader == ChangeDisk \/ Discover \/ DiscoverPluginsJs \/ PluginList \/ ExecutePlugin

\* No analyzer is running; the loader has just been constructed.
InitLoaderWith(disks) ==
    /\ fn = "loader" /\ nodes = <<>> /\ edges = <<>> /\ G = EmptyGraph /\ edge = EmptyDict
    /\ ei = 0 /\ pc = "done" /\ params = EmptyDict /\ id_to_label = EmptyDict
    /\ all_paths = <<>> /\ result = EmptyDict /\ allIn = [n \in NodeIds |-> 0]
    /\ clock = 0 /\ start_time = 0 /\ metadata = EmptyDict /\ first = Null /\ failed = {}
    /\ disk \in disks
    /\ InitLoader

SpecLoader == InitLoaderWith(Disks) /\ [][NextLoader]_vars

----------------------------------------------------------------------------
(* Vocabulary of the properties *)

HaveIds == \A i \in 1..Len(nodes) : "id" \in DOMAIN nodes[i]

SuppliedIds == {nodes[i].id : i \in {j \in 1..Len(nodes) : "id" \in DOMAIN nodes[j]}}

DistinctIds == HaveIds /\ \A i, j \in 1..Len(nodes) : i # j => nodes[i].id # nodes[j].id

EdgeMalformed(e) ==
    \/ "source" \notin DOMAIN e \/ "target" \notin DOMAIN e
    \/ e.source \notin SuppliedIds \/ e.target \notin SuppliedIds

\* The input read so far holds a node without id or a malformed edge (the
\* call ends at the first malformed record, which is then the last one read).
MalformedInput == ~HaveIds \/ (ei > 0 /\ EdgeMalformed(edge))

CoreReturned == fn = "core" /\ pc = "done"

NodeLabel(n) ==
    LET k == Max({i \in 1..Len(nodes) : Get(nodes[i], "id", None) = n})
    IN Get(nodes[k], "label", n)

LabelPath(path) == [i \in 1..Len(path) |-> NodeLabel(path[i])]

\* Node i of the graph is the last one carrying its label.
OwnsLabel(i) ==
    \A j \in (i+1)..Len(G.nodes) : NodeLabel(G.nodes[j]) # NodeLabel(G.nodes[i])

StoredWeightOf(s, n) == IF <<s, n>> \in DOMAIN G.attr THEN G.attr[<<s, n>>].weight ELSE 0

\* Sum over the source ids of the weight the graph holds for the pair (s, n).
StoredInto(n) == SumOver(NodeIds, [s \in NodeIds |-> StoredWeightOf(s, n)])

NoRepeat(path) == \A i, j \in 1..Len(path) : i # j => path[i] # path[j]

SimplePathsBetween(s, t) ==
    {path \in UNION {[1..k -> Range(G.nodes)] : k \in 2..Len(G.nodes)} :
        /\ path[1] = s /\ path[Len(path)] = t
        /\ NoRepeat(path)
        /\ PathEdges(path) \subseteq DOMAIN G.attr}

FirstId == nodes[1].id
LastId == nodes[Len(nodes)].id

PositivePathSet ==
    {LabelPath(path) : path \in {q \in SimplePathsBetween(FirstId, LastId) :
        \A e \in PathEdges(q) : G.attr[e].weight > 0}}

NegativePathSet ==
    {LabelPath(path) : path \in {q \in SimplePathsBetween(FirstId, LastId) :
        \A e \in PathEdges(q) : G.attr[e].weight < 0}}

ExactlyOnce(list, S) == Range(list) = S /\ Len(list) = Cardinality(S)

SomePositiveEdge == \E e \in DOMAIN G.attr : G.attr[e].weight > 0

\* A well-formed graph: every node has an id of its own, every edge joins
\* supplied ids.
WellFormedGraph == DistinctIds /\ ~MalformedInput

----------------------------------------------------------------------------
(* Properties *)

C2_MalformedGivesEmptyResult ==
    CoreReturned =>
        /\ "error" \in DOMAIN result
        /\ MalformedInput => result.error # ""
        /\ result.error # "" =>
              /\ result.influence_scores = EmptyDict
              /\ result.positive_paths = <<>>
              /\ result.negative_paths = <<>>

\* The malformed edge is the second of the list: an edge is in the graph
\* when the call fails.
C2_Witness ==
    /\ CoreReturned /\ ei = 2 /\ EdgeMalformed(edge)
    /\ DOMAIN G.attr # {}
    /\ result.error # "" /\ result.influence_scores = EmptyDict

\* C3: a call on well-formed input returns an empty error string.
C3_WellFormedNoError ==
    (CoreReturned /\ ~MalformedInput) => result.error = ""

\* A cycle between A and B, the last node C unreachable from the first, no
\* positive weight.
C3_Witness ==
    /\ CoreReturned /\ ~MalformedInput /\ result.error = ""
    /\ Len(nodes) = 3 /\ LastId = "C"
    /\ DOMAIN G.attr = {<<"A", "B">>, <<"B", "A">>}
    /\ \A e \in DOMAIN G.attr : G.attr[e].weight <= 0

\* C4: on a well-formed graph of two nodes or more, positive_paths holds
\* once each the simple paths from the first to the last node whose edges all
\* have a strictly positive weight, and nothing else.
C4_PositivePathsExact ==
    (CoreReturned /\ WellFormedGraph /\ Len(nodes) >= 2) =>
        ExactlyOnce(result.positive_paths, PositivePathSet)

\* Two positive paths, one of them through every node.
C4_Witness ==
    /\ CoreReturned /\ WellFormedGraph
    /\ Len(result.positive_paths) = 2
    /\ \E i \in 1..2 : Len(result.positive_paths[i]) = 3

EmittedPathsSimple ==
    /\ \A i \in 1..Len(all_paths) : NoRepeat(all_paths[i])
    /\ NoRepeat(all_paths)
    /\ (fn = "core") =>
          /\ \A i \in 1..Len(result.positive_paths) : NoRepeat(result.positive_paths[i])
          /\ \A i \in 1..Len(result.negative_paths) : NoRepeat(result.negative_paths[i])
          /\ NoRepeat(result.positive_paths) /\ NoRepeat(result.negative_paths)
    /\ (fn = "causal" /\ result.raised = None) =>
          LET reported == result.detailed_positive_paths
                          \o result.detailed_negative_paths \o result.mixed_paths
          IN /\ \A i \in 1..Len(reported) : NoRepeat(reported[i].path)
             /\ NoRepeat([i \in 1..Len(reported) |-> reported[i].path])
             /\ Len(reported) = Len(all_paths)

\* C7: every call returns, the enumeration of its paths included, on graphs
\* with cycles and self-loops too, and no enumerated or reported path holds a
\* node twice or occurs twice.
C7_EnumerationEndsNoRepeat ==
    /\ <>(pc = "done")
    /\ [](pc = "done" => EmittedPathsSimple)

\* A cycle, a self-loop and a path out of the cycle, enumerated by the plugin.
C7_Witness ==
    /\ pc = "done" /\ fn = "causal"
    /\ {<<"A", "A">>, <<"A", "B">>, <<"B", "A">>} \subseteq DOMAIN G.attr
    /\ all_paths = << <<"A", "B">> >>

\* C8: the weight the graph holds for the edge just read is -|weight| when
\* its type is "-" and +|weight| otherwise (weight 1 when absent).
C8_StoredWeightIsSignedAbs ==
    (fn = "core" /\ pc = "edges" /\ ei > 0) =>
        G.attr[<<edge.source, edge.target>>].weight =
            (IF Get(edge, "type", None) = "-"
             THEN -Abs(Get(edge, "weight", 1)) ELSE Abs(Get(edge, "weight", 1)))

\* C9: reading an edge leaves one edge for its ordered pair, with the weight
\* (and, in the plugin, the type) of the edge read, whatever the graph held
\* for the pair, and leaves the other edges as they were.
C9_LastEdgeWins ==
    [][(pc = "edges" /\ pc' = "edges" /\ ei' = ei + 1) =>
        LET pair == <<edge'.source, edge'.target>> IN
        /\ DOMAIN G'.attr = DOMAIN G.attr \cup {pair}
        /\ G'.attr[pair] = (IF fn = "core"
                            THEN [weight |-> CoreStoredWeight(edge')]
                            ELSE [weight |-> CausalStoredWeight(edge'),
                                  type |-> Get(edge', "type", "+")])
        /\ \A q \in DOMAIN G.attr \ {pair} : G'.attr[q] = G.attr[q]]_vars

\* A second edge of the same ordered pair was read and its weight replaced
\* a different one.
C9_Witness ==
    /\ fn = "core" /\ pc = "edges" /\ ei = 2
    /\ Cardinality(DOMAIN G.attr) = 1
    /\ allIn[edge.target] # 2 * G.attr[<<edge.source, edge.target>>].weight

SelectedSource == IF fn = "core" THEN FirstId ELSE CausalSource(nodes, params)
SelectedTarget == IF fn = "core" THEN LastId ELSE CausalTarget(nodes, params)

\* C10: when fewer than 2 nodes are supplied, or the selected source and
\* target are the same node, every path list of the result is empty and no
\* error is signalled, in graph_analysis.analyze_graph and in the plugin.
C10_SameEndsNoPaths ==
    (pc = "done" /\ ~MalformedInput
        /\ (Len(nodes) < 2 \/ SelectedSource = SelectedTarget)) =>
        IF fn = "core"
        THEN /\ result.positive_paths = <<>>
             /\ result.negative_paths = <<>>
             /\ result.error = ""
        ELSE /\ result.raised = None
             /\ result.positive_paths = <<>>
             /\ result.negative_paths = <<>>
             /\ result.mixed_paths = <<>>

PluginReturned == fn \in {"causal", "path", "importance"} /\ pc = "done"

\* C11: no plugin analyzer lets an exception escape analyze_graph: whatever
\* the input, the call ends by returning, not by raising.
C11_PluginsNeverRaise == PluginReturned => result.raised = None

\* C13: in the causal-paths plugin every enumerated path is in exactly one
\* of the three lists, a positive path has only strictly positive stored
\* weights, a negative path only strictly negative ones, and a path with a
\* zero-weight edge is mixed.
C13_ClassifiedBySignedWeight ==
    (fn = "causal" /\ pc = "done" /\ result.raised = None) =>
        \A i \in 1..Len(all_paths) :
            LET labelled == LabelPath(all_paths[i])
                weights == {G.attr[e].weight : e \in PathEdges(all_paths[i])}
                isIn(list) == \E k \in 1..Len(list) : list[k].path = labelled
                inPos == isIn(result.detailed_positive_paths)
                inNeg == isIn(result.detailed_negative_paths)
                inMix == isIn(result.mixed_paths)
            IN /\ inPos \/ inNeg \/ inMix
               /\ ~(inPos /\ inNeg) /\ ~(inPos /\ inMix) /\ ~(inNeg /\ inMix)
               /\ inPos => \A w \in weights : w > 0
               /\ inNeg => \A w \in weights : w < 0
               /\ 0 \in weights => inMix

\* C14: in the causal-paths plugin, when max_path_length is not supplied the
\* paths enumerated are those found with the node count as cutoff, that is
\* every simple path from source to target, and each is in one of the lists.
C14_DefaultCutoffIsNodeCount ==
    (fn = "causal" /\ pc = "done" /\ result.raised = None
        /\ "max_path_length" \notin DOMAIN params) =>
        LET every == AllSimplePaths(G, CausalSource(nodes, params),
                         CausalTarget(nodes, params), Len(G.nodes), FALSE)
            reported == result.detailed_positive_paths
                        \o result.detailed_negative_paths \o result.mixed_paths
        IN \A i \in 1..Len(every) :
              \E k \in 1..Len(reported) : reported[k].path = LabelPath(every[i])

\* C15: when a node lacks its id, an edge lacks source or target, or an edge
\* names an id that is no supplied node, the plugin's call ends with a
\* GraphValidationError.
C15_ValidationErrorSurfaced ==
    (PluginReturned /\ MalformedInput) => result.raised = "GraphValidationError"

PathUnreachable ==
    /\ PathSource(nodes, params) # PathTarget(nodes, params)
    /\ SimplePathsBetween(PathSource(nodes, params), PathTarget(nodes, params)) = {}

PathRan == fn = "path" /\ pc = "done" /\ ~MalformedInput /\ Len(nodes) >= 2

PathAnalysisType == Get(params, "analysis_type", "comprehensive")

\* C16: in the path-analysis plugin, when the target is unreachable from the
\* source the call returns, the shortest-path fields are null, null and 0,
\* and all_paths is empty with total_paths 0.
C16_NoPathIsAResult ==
    (PathRan /\ PathUnreachable) =>
        /\ result.raised = None
        /\ PathAnalysisType \in {"comprehensive", "shortest_only"} =>
              /\ result.shortest_path = Null
              /\ result.shortest_distance = Null
              /\ result.shortest_path_length = 0
        /\ PathAnalysisType \in {"comprehensive", "all_paths"} =>
              /\ result.all_paths = <<>>
              /\ result.total_paths = 0

\* A comprehensive run on a graph with edges none of which leads to the target.
C16_Witness ==
    /\ PathRan /\ PathUnreachable /\ PathAnalysisType = "comprehensive"
    /\ Cardinality(DOMAIN G.attr) >= 2
    /\ result.shortest_path = Null /\ result.total_paths = 0

DistanceAlong(path) ==
    SumOver(1..(Len(path) - 1),
            [i \in 1..(Len(path) - 1) |-> G.attr[<<path[i], path[i+1]>>].weight])

----------------------------------------------------------------------------
(* node-importance: ranking, selection, tiers *)

ImportanceRan == fn = "importance" /\ pc = "done" /\ result.raised = None

TierCount == Get(params, "highlight_tiers", 4)

TopPercent == Get(params, "top_percent", 50)

\* The entries of the ranking that were selected for tiering.
Selected == Slice(result.full_ranking, 0, result.nodes_highlighted)

RECURSIVE TierNodesInOrder(_)
TierNodesInOrder(tier_data) ==
    IF tier_data = <<>> THEN <<>>
    ELSE TierNodesInOrder(SubSeq(tier_data, 1, Len(tier_data) - 1))
         \o tier_data[Len(tier_data)].nodes

DescendingScores(ranking) ==
    \A i, j \in 1..Len(ranking) : i < j => ranking[i][2] >= ranking[j][2]

\* C18: the ranking holds the nodes in order of descending score, and the
\* nodes selected for tiering are exactly its first
\* max(1, floor(N * top_percent / 100)) entries, N the number of nodes: at
\* least one, and none with a lower score than a node left out.
C18_SelectsTopPercentOfNodes ==
    ImportanceRan =>
        /\ DescendingScores(result.full_ranking)
        /\ result.nodes_highlighted =
               Max({1, (Cardinality(SuppliedIds) * TopPercent) \div 100})
        /\ TierNodesInOrder(result.tier_data) =
               SubSeq(result.full_ranking, 1, result.nodes_highlighted)
        /\ result.nodes_highlighted >= 1
        /\ \A i \in 1..Len(result.full_ranking) :
              i > result.nodes_highlighted =>
                 \A k \in 1..Len(Selected) : Selected[k][2] >= result.full_ranking[i][2]

DistinctLabels ==
    HaveIds /\ \A i, j \in 1..Len(nodes) : i # j => NodeLabel(nodes[i].id) # NodeLabel(nodes[j].id)

\* The selection of C18 when no two nodes share a label.
SelectsTopPercentOfDistinctLabels == DistinctLabels => C18_SelectsTopPercentOfNodes

\* The tiers are contiguous groups of the selected nodes in rank order, each
\* selected node in exactly one of them, numbered from 1, all but the last
\* of one size, the last holding the rest.
TiersPartitionSelected ==
    LET tiers == result.tier_data IN
    /\ TierNodesInOrder(tiers) = Selected
    /\ DescendingScores(TierNodesInOrder(tiers))
    /\ \A i \in 1..Len(tiers) :
          /\ tiers[i].tier = i
          /\ tiers[i].count = Len(tiers[i].nodes)
          /\ tiers[i].count >= 1
    /\ \A i, j \in 1..(Len(tiers) - 1) : tiers[i].count = tiers[j].count
    /\ \A i \in 1..(Len(tiers) - 1) : tiers[Len(tiers)].count >= tiers[i].count

\* C19 as stated: create_importance_tiers partitions the selected nodes into
\* tier_count contiguous groups by rank, every selected node in exactly one
\* tier, tier 1 the highest scores, scores never increasing from tier to
\* tier, all tiers but the last of one size, the last absorbing the rest.
C19_TiersPartitionIntoTierCount ==
    ImportanceRan => (TiersPartitionSelected /\ Len(result.tier_data) = TierCount)

\* C19 amended: the same partition, into min(tier_count, k) groups when k
\* nodes are selected.
C19_TiersPartitionIntoAtMostTierCount ==
    ImportanceRan =>
        /\ TiersPartitionSelected
        /\ Len(result.tier_data) =
              (IF TierCount < Len(Selected) THEN TierCount ELSE Len(Selected))

\* Five nodes selected into tiers of sizes 1, 1 and 3.
C19_Witness ==
    /\ ImportanceRan /\ Len(Selected) = 5 /\ Len(result.tier_data) = 3
    /\ result.tier_data[1].count = 1 /\ result.tier_data[3].count = 3
    /\ result.tier_data[1].min_score > result.tier_data[3].max_score

\* C20: when the labels are distinct every supplied node has an entry in
\* tier_assignments, node_colors and node_sizes and there are no other
\* entries; a selected node carries a tier in 1..tier_count, every other
\* node tier 0, colour #cccccc and size 12.
C20_EveryNodeStyled ==
    (ImportanceRan /\ DistinctLabels) =>
        LET labels == {NodeLabel(n) : n \in SuppliedIds}
            selected == {Selected[k][1] : k \in 1..Len(Selected)}
        IN /\ DOMAIN result.tier_assignments = labels
           /\ DOMAIN result.node_colors = labels
           /\ DOMAIN result.node_sizes = labels
           /\ selected \subseteq labels /\ selected # {}
           /\ \A l \in selected : result.tier_assignments[l] \in 1..TierCount
           /\ \A l \in labels \ selected :
                 /\ result.tier_assignments[l] = 0
                 /\ result.node_colors[l] = "#cccccc"
                 /\ result.node_sizes[l] = 12

\* Five nodes, two of them selected into different tiers, three left out.
C20_Witness ==
    /\ ImportanceRan /\ DistinctLabels /\ Len(nodes) = 5 /\ Len(Selected) = 2
    /\ result.tier_assignments[Selected[1][1]] = 1
    /\ result.tier_assignments[Selected[2][1]] = 2
    /\ \E l \in DOMAIN result.tier_assignments : result.tier_assignments[l] = 0

----------------------------------------------------------------------------
(* Two calls on the same arguments *)

\* The second call has returned or raised.
SecondReturned == first # Null /\ pc = "done"

TimeFields == {"timestamp", "execution_time_ms"}

WithoutTimes(m) == [k \in DOMAIN m \ TimeFields |-> m[k]]

----------------------------------------------------------------------------
(* causal-paths: source, target, path weights *)

CausalRan == fn = "causal" /\ pc = "done" /\ result.raised = None

\* The ends the parameters ask for: the supplied value when it is a node id,
\* otherwise the first (last) supplied node.
RequestedSource ==
    LET v == Get(params, "source_node", "auto")
    IN IF v \in SuppliedIds THEN v ELSE FirstId

RequestedTarget ==
    LET v == Get(params, "target_node", "auto")
    IN IF v \in SuppliedIds THEN v ELSE LastId

ReportedPaths ==
    result.detailed_positive_paths \o result.detailed_negative_paths \o result.mixed_paths

\* C22: source and target are chosen independently, a supplied node id as it
\* is and anything else as the first (last) node, and whenever the two
\* differ the paths between them (within the cutoff) are enumerated.
C22_EndsChosenThenEnumerated ==
    CausalRan =>
        /\ result.path_analysis_source = NodeLabel(RequestedSource)
        /\ result.path_analysis_target = NodeLabel(RequestedTarget)
        /\ RequestedSource # RequestedTarget =>
              \A path \in SimplePathsBetween(RequestedSource, RequestedTarget) :
                 Len(path) - 1 <= Get(params, "max_path_length", 5) =>
                    \E k \in 1..Len(ReportedPaths) : ReportedPaths[k].path = LabelPath(path)

\* The same on the node lists without an empty id.
EndsChosenThenEnumeratedNonEmptyIds == "" \notin SuppliedIds => C22_EndsChosenThenEnumerated

RECURSIVE ProductOf(_)
ProductOf(ws) == IF ws = <<>> THEN 1 ELSE ws[1] * ProductOf(Tail(ws))

SignedWeightsAlong(path) ==
    [i \in 1..(Len(path) - 1) |-> G.attr[<<path[i], path[i+1]>>].weight]

NonIncreasingAbsWeight(list) ==
    \A i, j \in 1..Len(list) : i < j => Abs(list[i].weight) >= Abs(list[j].weight)

----------------------------------------------------------------------------
(* path-analysis: distances *)

\* The distance the claim gives the edge record e.
ClaimedDistance(e) ==
    IF "weight" \notin DOMAIN e THEN PathOne
    ELSE IF e.weight = 0 THEN PathOne
    ELSE IF e.weight < 0 THEN 0 - e.weight ELSE e.weight

\* The edge read last is stored with the claimed distance, and every stored
\* distance is strictly positive.
StoredDistancesPositive ==
    (fn = "path" /\ pc \in {"edges", "done"} /\ ~MalformedInput) =>
        /\ ei > 0 => G.attr[<<edge.source, edge.target>>].weight = ClaimedDistance(edge)
        /\ \A e \in DOMAIN G.attr : G.attr[e].weight > 0

\* Every reported distance is non-negative, and 0 only for a path with no edge.
ReportedDistancesPositive ==
    (PathRan /\ result.raised = None) =>
        /\ PathAnalysisType \in {"comprehensive", "shortest_only"} =>
              (result.shortest_distance # Null =>
                  /\ result.shortest_distance[1] >= 0
                  /\ result.shortest_distance[1] = 0 => result.shortest_path_length = 0)
        /\ PathAnalysisType \in {"comprehensive", "all_paths"} =>
              \A i \in 1..Len(result.all_paths) :
                  /\ result.all_paths[i].weight >= 0
                  /\ result.all_paths[i].weight = 0 => result.all_paths[i].length = 0

\* C24: every edge of the built graph has a strictly positive distance, the
\* absolute value of its input weight, or 1 when that weight is 0 or absent;
\* every reported shortest_distance and path weight is non-negative and is 0
\* only for a path with no edge.
C24_DistancesStrictlyPositive == StoredDistancesPositive /\ ReportedDistancesPositive

\* The reported distances on the graphs whose edges weigh a hundredth or more.
ReportedDistancesPositiveFromHundredth ==
    (\A e \in DOMAIN G.attr : G.attr[e].weight >= 10) => ReportedDistancesPositive

\* C28: in a comprehensive run, when a shortest path exists of at most
\* max_path_length hops, all_paths is not empty and its first entry weighs
\* what shortest_distance reports, whatever path_limit >= 1 is.
C28_TruncationKeepsShortest ==
    (PathRan /\ PathAnalysisType = "comprehensive"
        /\ Get(params, "path_limit", 20) >= 1
        /\ result.shortest_distance # Null
        /\ result.shortest_path_length <= Get(params, "max_path_length", 6)) =>
        /\ result.all_paths # <<>>
        /\ result.all_paths[1].weight = result.shortest_distance[1]

\* The same in the runs that drop no path, between two different nodes.
KeepsShortestWhenNothingDropped ==
    (/\ PathRan
     /\ Len(all_paths) <= Get(params, "path_limit", 20)
     /\ result.source_id # result.target_id) => C28_TruncationKeepsShortest

\* A run that dropped a path lighter than the one it kept.
TruncationDroppedShortest ==
    /\ PathRan /\ PathAnalysisType = "comprehensive"
    /\ Len(all_paths) = 2 /\ Len(result.all_paths) = 1
    /\ result.all_paths[1].weight > result.shortest_distance[1]

----------------------------------------------------------------------------
(* path-analysis: critical nodes *)

BottlenecksRan == PathRan /\ PathAnalysisType \in {"comprehensive", "bottlenecks"}

\* The number of nodes of the top quartile.
QuartileSize ==
    LET count == Cardinality(DOMAIN result.node_betweenness)
    IN IF count \div 4 >= 1 THEN count \div 4 ELSE 1

\* The score at the quartile cutoff: fewer than QuartileSize nodes score
\* more, at least QuartileSize score as much.
CutoffScores ==
    LET b == result.node_betweenness
    IN {c \in {b[l] : l \in DOMAIN b} :
           /\ Cardinality({l \in DOMAIN b : b[l] > c}) < QuartileSize
           /\ Cardinality({l \in DOMAIN b : b[l] >= c}) >= QuartileSize}

\* C21: a node is reported in critical_nodes iff its betweenness is strictly
\* positive and it is in the top quartile of betweenness, the nodes tied
\* with the score at the quartile cutoff included.
C21_CriticalIffTopQuartile ==
    BottlenecksRan =>
        \A l \in DOMAIN result.node_betweenness :
            (l \in Range(result.critical_nodes)) <=>
                (/\ result.node_betweenness[l] > 0
                 /\ \A c \in CutoffScores : result.node_betweenness[l] >= c)

\* The same where no other node scores what the node at the cutoff scores.
CriticalIffTopQuartileNoTie ==
    (BottlenecksRan =>
        \A c \in CutoffScores :
            Cardinality({l \in DOMAIN result.node_betweenness :
                            result.node_betweenness[l] = c}) = 1)
    => C21_CriticalIffTopQuartile

----------------------------------------------------------------------------
(* influence_scores and labels *)

Succeeded ==
    /\ pc = "done" /\ fn \in {"core", "causal"} /\ HaveIds
    /\ IF fn = "core" THEN result.error = "" ELSE result.raised = None

\* C27: on success influence_scores has one entry per distinct supplied
\* node id, and the entry of a node is the sum of the weights stored on the
\* edges into that node alone, whatever the labels.
C27_OneScorePerNode ==
    Succeeded =>
        /\ Cardinality(DOMAIN result.influence_scores) = Cardinality(SuppliedIds)
        /\ \A n \in SuppliedIds :
              /\ NodeLabel(n) \in DOMAIN result.influence_scores
              /\ result.influence_scores[NodeLabel(n)] = StoredInto(n)

\* The same when no two nodes have the same label.
OneScorePerNodeDistinctLabels ==
    (\A m, n \in SuppliedIds : m # n => NodeLabel(m) # NodeLabel(n)) => C27_OneScorePerNode

----------------------------------------------------------------------------
(* node-importance: tier numbers *)

\* C29: for k >= 1 selected nodes and tier_count >= 1 there are exactly
\* min(tier_count, k) tiers, none empty, numbered 1, 2, ... in order; the
\* number of a tier is the tier written to tier_assignments for each of its
\* nodes, and its colour is one of the tier_count generated colours.
C29_TierNumbersConsecutive ==
    (ImportanceRan /\ TierCount >= 1 /\ Len(Selected) >= 1) =>
        LET tiers == result.tier_data
            colors == GenerateColorScheme(TierCount)
        IN /\ Len(tiers) = (IF TierCount < Len(Selected) THEN TierCount ELSE Len(Selected))
           /\ Len(tiers) <= Len(colors)
           /\ \A i \in 1..Len(tiers) :
                 /\ tiers[i].nodes # <<>>
                 /\ tiers[i].tier = i
                 /\ \A k \in 1..Len(tiers[i].nodes) :
                       /\ result.tier_assignments[tiers[i].nodes[k][1]] = tiers[i].tier
                       /\ result.node_colors[tiers[i].nodes[k][1]] = colors[tiers[i].tier]

\* Two nodes selected for four tiers: two tiers, numbered 1 and 2.
C29_Witness ==
    /\ ImportanceRan /\ TierCount = 4 /\ Len(Selected) = 2
    /\ Len(result.tier_data) = 2 /\ result.tier_data[2].tier = 2
    /\ result.tier_assignments[result.tier_data[2].nodes[1][1]] = 2

----------------------------------------------------------------------------
(* Node centrality: the fallback chains *)

\* The measures were computed, or an exception left their blocks.
CentralityRan == fn = "centrality" /\ pc = "done" /\ metadata # EmptyDict

UnweightedAttempts ==
    {"betweenness_centrality", "closeness_centrality", "pagerank"}

\* C25: in the node-centrality plugin, whichever attempts of betweenness,
\* closeness, eigenvector or PageRank fail, the analysis does not end in an
\* error: it returns the scores of every requested measure.
C25_FailedAttemptsNeverSurface ==
    (CentralityRan /\ failed # {}) =>
        /\ result.raised = None
        /\ DOMAIN result.secondary = CentralityTypes(params)

\* As long as no unweighted betweenness, closeness or PageRank call fails,
\* the analysis returns the scores of every requested measure.
FailedFirstAttemptsNeverSurface ==
    (CentralityRan /\ failed # {} /\ failed \cap UnweightedAttempts = {}) =>
        /\ result.raised = None
        /\ DOMAIN result.secondary = CentralityTypes(params)

\* An unweighted call failed and the analysis ended in an AnalysisError.
FallbackFailureSurfaced ==
    /\ CentralityRan
    /\ failed \cap UnweightedAttempts # {}
    /\ result.raised = "AnalysisError"

BothEigenvectorFailed ==
    /\ CentralityRan
    /\ {"eigenvector_centrality(weight)", "eigenvector_centrality"} \subseteq failed
    /\ result.raised = None

\* C26: in the node-centrality plugin, when both eigenvector computations
\* fail, the eigenvector scores reported are the degree centrality of the
\* nodes, whatever other measures are requested.
C26_EigenvectorFallsBackToDegree ==
    BothEigenvectorFailed =>
        result.secondary["eigenvector"] =
            CentralityLabeled(G, id_to_label, DegreeCentrality(G, CentralityDirected(edges)))

\* When 'degree' is requested too, the eigenvector scores reported after
\* both failures are the degree centrality of the nodes.
EigenvectorFallsBackToRequestedDegree ==
    (BothEigenvectorFailed /\ "degree" \in CentralityTypes(params)) =>
        result.secondary["eigenvector"] =
            CentralityLabeled(G, id_to_label, DegreeCentrality(G, CentralityDirected(edges)))

\* Both eigenvector computations failed, 'degree' was not requested, and no
\* eigenvector score is reported.
EigenvectorFallbackEmpty ==
    /\ BothEigenvectorFailed
    /\ "degree" \notin CentralityTypes(params)
    /\ result.secondary["eigenvector"] = EmptyDict
    /\ \E e \in DOMAIN G.attr : TRUE

----------------------------------------------------------------------------
(* Plugin loader: the registry after several scans *)

\* discover_plugins has been called; plugins holds what the latest call
\* returned.
Scanned == fn = "loader" /\ plugins # Null

LatestScan == Range(plugins[1])

LoadedInLatestScan(item) == \E info \in LatestScan : info._path = PluginPath(item)

LastCall == IF "call" \in DOMAIN returned THEN returned.call ELSE ""

\* C30: after any sequence of discover_plugins calls the registry reflects
\* the latest scan only: a directory that loaded in it has no entry in
\* plugin_errors, and a plugin whose directory did not load in it is not in
\* loaded_plugins, is not listed by get_plugin_list or discover_plugins_js,
\* and is not run by execute_plugin.
C30_RegistryReflectsLatestScan ==
    Scanned =>
        /\ \A item \in PluginItems :
              LoadedInLatestScan(item) => item \notin DOMAIN plugin_errors
        /\ \A id \in DOMAIN loaded_plugins : loaded_plugins[id] \in LatestScan
        /\ \A listed \in GetPluginList(loaded_plugins) :
              \E info \in LatestScan : info.id = listed.id
        /\ \A id \in PluginIds :
              CanExecute(disk, loaded_plugins, id) => loaded_plugins[id] \in LatestScan
        /\ LastCall = "get_plugin_list" =>
              \A listed \in returned.value : \E info \in LatestScan : info.id = listed.id
        /\ LastCall = "discover_plugins_js" =>
              \A listed \in returned.plugins : \E info \in LatestScan : info.id = listed.id
        /\ (LastCall = "execute_plugin" /\ returned.raised = None) =>
              loaded_plugins[returned.plugin_id] \in LatestScan

\* Every plugin the latest scan loaded is registered under its id.
LatestScanRegistered ==
    Scanned => \A info \in LatestScan : info.id \in DOMAIN loaded_plugins

\* No call of the loader removes an entry of loaded_plugins or of
\* plugin_errors.
RegistryOnlyGrows ==
    [][/\ DOMAIN loaded_plugins \subseteq DOMAIN loaded_plugins'
       /\ DOMAIN plugin_errors \subseteq DOMAIN plugin_errors']_vars

\* The latest scan failed to load causal-paths, which an earlier scan had
\* registered; it is still listed, and execute_plugin has just run it.
StalePluginRan ==
    /\ Scanned
    /\ "causal-paths" \in DOMAIN plugin_errors
    /\ ~LoadedInLatestScan("causal-paths")
    /\ [id |-> "causal-paths"] \in GetPluginList(loaded_plugins)
    /\ LastCall = "execute_plugin"
    /\ returned.plugin_id = "causal-paths"
    /\ returned.raised = None

\* The latest scan loaded causal-paths; the error of an earlier scan is
\* still reported for it.
StaleErrorReported ==
    /\ Scanned
    /\ LoadedInLatestScan("causal-paths")
    /\ LastCall = "discover_plugins_js"
    /\ "causal-paths" \in DOMAIN returned.errors
====
